---- MODULE Spec2Model ----
(***************************************************************************)
(* A model of fix_fonts.py: the tokenizer, the English classifier, the     *)
(* run rewriter (frequency mode), the sentence matcher (sentence mode) and *)
(* the command line entry point.                                           *)
(*                                                                         *)
(* Strings are sequences of one-character strings.  Scores and thresholds  *)
(* of the word-frequency oracle are in tenths (35 stands for 3.5).         *)
(***************************************************************************)
EXTENDS Integers, Sequences, FiniteSets, TLC

VARIABLES
    pc,             \* position of the modelled call
    text,           \* argument of the pure function under call
    threshold,      \* --threshold / threshold argument
    src_font_name,  \* src_font_name argument of should_use_tnr
    zipf,           \* module global _zipf_frequency: None, or the oracle
    ret,            \* value returned by the call
    mode,           \* "frequency" (process_paragraph) or "sentence"
    paragraph,      \* the paragraph: its runs, in document order
    input_runs,     \* the paragraph's runs as they were before the call
    first_pass,     \* the paragraph's runs as process_paragraph left them,
                    \* when it is called on the paragraph once more
    original_runs,  \* process_paragraph: snapshot of the runs (their ids)
    run_idx,        \* process_paragraph: position of the loop in original_runs
    runs_scanned,   \* process_paragraph: runs_scanned
    english_changed,\* process_paragraph: english_changed
    sentence,       \* apply_sentence_to_paragraph: sentence
    search_from,    \* apply_sentence_to_paragraph: search_from
    converted,      \* apply_sentence_to_paragraph: converted
    args,           \* main: the parsed command line
    files,          \* the regular files of the file system
    ordered,        \* main: the sentence list handed to apply_sentences_docx
    opened,         \* Document(in_path) has returned a document
    processed,      \* every paragraph of the document has been processed
    written,        \* the files written by doc.save
    failure,        \* the exception that left convert_docx or
                    \* apply_sentences_docx, and the call that raised it
    exit_code,      \* exit status of the process, -1 while it runs
    doc,            \* convert_docx / apply_sentences_docx: the document
    input_doc,      \* the document as Document(in_path) returned it
    doc_sentences,  \* apply_sentences_docx: sentences
    dry_run,        \* convert_docx: dry_run
    call_log,       \* the calls made on paragraphs so far, with what each
                    \* returned, in the order they were made
    counts,         \* convert_docx: the three groups of counters
    total_converted,\* apply_sentences_docx: total_converted
    saved,          \* doc.save: "no" (not called), "yes" or "failed"
    platform,       \* text combiner: os.name, and what Path.resolve does on
                    \* a symbolic link that points to itself
    self_files,     \* TextCombinerApp.files
    files_index,    \* TextCombinerApp.files_index
    lst_files,      \* TextCombinerApp.lst_files: its lines and its selection
    event,          \* the handler that ran last, with the paths it was given
    controls,       \* text combiner: for each widget, whether its state is
                    \* tk.NORMAL
    output_path_var,\* TextCombinerApp.output_path_var
    settings,       \* add_headers_var and separator_var
    worker,         \* the thread started by on_combine and the locals of
                    \* its call of combine_files
    out_f,          \* what combine_files has written to the output file
    tesseract_available, \* BanglaOCRGUI.tesseract_available
    single_image_var,    \* BanglaOCRGUI.single_image_var
    multiple_images_var, \* BanglaOCRGUI.multiple_images_var
    folder_var,          \* BanglaOCRGUI.folder_var
    output_var,          \* BanglaOCRGUI.output_var
    is_processing,       \* BanglaOCRGUI.is_processing
    process_btn,         \* state of BanglaOCRGUI.process_btn
    ocr_thread,          \* the thread started by start_processing: the
                         \* locals of its call of process_images, and the
                         \* callback it has handed to root.after
    output_files         \* the files the thread has opened for writing,
                         \* in the order it did

pureVars == <<text, src_font_name, ret>>
paraVars == <<mode, paragraph, input_runs, first_pass, original_runs, run_idx,
              runs_scanned, english_changed, sentence, search_from, converted>>
cliVars == <<args, files, ordered, opened, processed, written, failure,
             exit_code>>
docVars == <<doc, input_doc, doc_sentences, dry_run, call_log, counts, total_converted,
             saved>>
appVars == <<platform, self_files, files_index, lst_files, event, controls,
             output_path_var, settings, worker, out_f>>
ocrVars == <<tesseract_available, single_image_var, multiple_images_var,
             folder_var, output_var, is_processing, process_btn, ocr_thread,
             output_files>>
vars == <<pc, threshold, zipf, pureVars, paraVars, cliVars, docVars, appVars,
          ocrVars>>

None == "None"

(***************************************************************************)
(* Bounds of the model.                                                    *)
(***************************************************************************)
MaxTextLen == 3
MaxParaLen == 3

(***************************************************************************)
(* Characters.                                                             *)
(***************************************************************************)
LowerLetters == <<"a","b","c","d","e","f","g","h","i","j","k","l","m",
                  "n","o","p","q","r","s","t","u","v","w","x","y","z">>
UpperLetters == <<"A","B","C","D","E","F","G","H","I","J","K","L","M",
                  "N","O","P","Q","R","S","T","U","V","W","X","Y","Z">>

Range(s) == {s[i] : i \in DOMAIN s}

\* [A-Za-z]
IsLatin(c) == c \in Range(LowerLetters) \cup Range(UpperLetters)

\* [A-Za-z'-]
IsWordChar(c) == IsLatin(c) \/ c \in {"'", "-"}

\* \s (of the characters a TLA+ string can hold)
IsSpace(c) == c \in {" ", "\t", "\n", "\r", "\f"}

\* [^A-Za-z\s]
IsOther(c) == ~IsLatin(c) /\ ~IsSpace(c)

\* CTRL_CHARS_RE: [\x00-\x08\x0B\x0C\x0E-\x1F\x7F]; "\f" is \x0C
IsCtrl(c) == c \in {"\f"}

\* The lower-case letter of each upper-case letter
LowerOf ==
    [c \in Range(UpperLetters) |->
        LowerLetters[CHOOSE i \in DOMAIN UpperLetters : UpperLetters[i] = c]]

\* str.lower() on one character
LowerChar(c) == IF c \in DOMAIN LowerOf THEN LowerOf[c] ELSE c

\* str.lower()
LowerStr(s) == [i \in DOMAIN s |-> LowerChar(s[i])]

RECURSIVE Concat(_)
\* "".join(parts)
Concat(parts) ==
    IF parts = <<>> THEN <<>> ELSE Head(parts) \o Concat(Tail(parts))

\* needle in haystack (substring test)
Contains(needle, haystack) ==
    \E i \in 0..(Len(haystack) - Len(needle)) :
        SubSeq(haystack, i + 1, i + Len(needle)) = needle

\* Strings over alphabet A of length at most n
StringsUpTo(A, n) == UNION {[1..k -> A] : k \in 0..n}

(***************************************************************************)
(* Tokenizer.                                                              *)
(***************************************************************************)
\* The characters of a class of the patterns: [A-Za-z'-], \s, [^A-Za-z\s]
InClass(c, class) ==
    CASE class = "word" -> IsWordChar(c)
      [] class = "space" -> IsSpace(c)
      [] class = "other" -> IsOther(c)

\* Last index of the greedy run of characters of a class that starts at i
SpanEnd(s, i, class) ==
    CHOOSE j \in i..Len(s) :
        /\ \A k \in i..j : InClass(s[k], class)
        /\ (j = Len(s) \/ ~InClass(s[j + 1], class))

\* TOKEN_SPLIT_RE matched at position i: the index of the last character of
\* the match, or 0 when no alternative matches there.  The alternatives are
\* tried in the order of the pattern.
TOKEN_SPLIT_RE(s, i) ==
    IF IsLatin(s[i]) /\ i + 1 <= Len(s) /\ IsWordChar(s[i + 1])
    THEN SpanEnd(s, i + 1, "word")
    ELSE IF IsSpace(s[i]) THEN SpanEnd(s, i, "space")
    ELSE IF IsOther(s[i]) THEN SpanEnd(s, i, "other")
    ELSE 0

RECURSIVE FindAll(_, _)
\* TOKEN_SPLIT_RE.findall(text), scanning from position i: a position where
\* the pattern does not match is skipped
FindAll(s, i) ==
    IF i > Len(s) THEN <<>>
    ELSE LET e == TOKEN_SPLIT_RE(s, i) IN
         IF e = 0 THEN FindAll(s, i + 1)
         ELSE <<SubSeq(s, i, e)>> \o FindAll(s, e + 1)

split_into_chunks(t) ==
    IF t = <<>> THEN <<>>
    ELSE SelectSeq(FindAll(t, 1), LAMBDA p : p # <<>>)

\* EN_LIKE_WORD_RE.fullmatch(chunk)
EN_LIKE_WORD_RE(chunk) ==
    /\ Len(chunk) >= 2
    /\ IsLatin(chunk[1])
    /\ \A k \in 2..Len(chunk) : IsWordChar(chunk[k])

sanitize_text(t) ==
    IF t = <<>> THEN <<>> ELSE SelectSeq(t, LAMBDA c : ~IsCtrl(c))

(***************************************************************************)
(* Classifier.                                                             *)
(***************************************************************************)
MinWordLen == 2
ShortTokenLen == 3
DefaultThreshold == 35

Scores == {0, 35, 50}
Thresholds == {30, DefaultThreshold, 40}

\* An optional string that is None (no real string holds this element)
NoneStr == <<None>>

_clean_token(token) ==
    IF token # <<>> THEN SelectSeq(token, IsWordChar) ELSE <<>>

\* The word the oracle is asked about for a token
OracleWord(token) == LowerStr(SelectSeq(token, IsWordChar))

\* is_english_word raises RuntimeError: the oracle is needed and not installed
is_english_word_raises(token) ==
    /\ token # <<>>
    /\ Len(SelectSeq(token, IsWordChar)) >= MinWordLen
    /\ ~zipf.installed

\* is_english_word comparing with > instead of >=
is_english_word_strict(token, thr) ==
    IF token = <<>> THEN FALSE
    ELSE LET cleaned == SelectSeq(token, IsWordChar) IN
         IF Len(cleaned) < MinWordLen THEN FALSE
         ELSE zipf.installed /\ zipf.freq[LowerStr(cleaned)] > thr

\* The value is_english_word returns (FALSE stands in when it raises)
is_english_word(token, thr) ==
    IF token = <<>> THEN FALSE
    ELSE LET cleaned == SelectSeq(token, IsWordChar) IN
         IF Len(cleaned) < MinWordLen THEN FALSE
         ELSE zipf.installed /\ zipf.freq[LowerStr(cleaned)] >= thr

sutonny == <<"s","u","t","o","n","n","y">>
SutonnyMJ == <<"S","u","t","o","n","n","y","M","J">>
TimesNewRoman == <<"T","i","m","e","s"," ","N","e","w"," ","R","o","m","a","n">>

\* should_use_tnr raises: is_english_word is reached and raises
should_use_tnr_raises(token) ==
    /\ Len(_clean_token(token)) >= MinWordLen
    /\ is_english_word_raises(_clean_token(token))

\* should_use_tnr with the font name compared as written, not lower-cased
should_use_tnr_case_sensitive(token, thr, font) ==
    LET cleaned == _clean_token(token) IN
    IF Len(cleaned) < MinWordLen THEN FALSE
    ELSE IF ~is_english_word(cleaned, thr) THEN FALSE
    ELSE LET font_name == IF font = NoneStr THEN <<>> ELSE font IN
         IF Contains(sutonny, font_name) /\ Len(cleaned) <= ShortTokenLen
         THEN FALSE
         ELSE TRUE

\* The value should_use_tnr returns (FALSE stands in when it raises)
should_use_tnr(token, thr, font) ==
    LET cleaned == _clean_token(token) IN
    IF Len(cleaned) < MinWordLen THEN FALSE
    ELSE IF ~is_english_word(cleaned, thr) THEN FALSE
    ELSE LET font_name == LowerStr(IF font = NoneStr THEN <<>> ELSE font) IN
         IF Contains(sutonny, font_name) /\ Len(cleaned) <= ShortTokenLen
         THEN FALSE
         ELSE TRUE

(***************************************************************************)
(* Styled runs.  A run is its text, its run properties (rPr) and where it  *)
(* sits: kind "hyperlink" for a run whose parent is a hyperlink element,   *)
(* "field" for a field-code run, "plain" otherwise.  id names the run      *)
(* object; src is the id of the run a new run was cloned from (0 for a run *)
(* of the input) and relabelled tells whether set_ascii_hAnsi was applied  *)
(* to it: both only record what the code did.                              *)
(***************************************************************************)
NoneFont == NoneStr

\* No w:rFonts element
NoRFonts ==
    [present |-> FALSE, ascii |-> NoneFont, hAnsi |-> NoneFont,
     eastAsia |-> NoneFont, cs |-> NoneFont, hint |-> NoneFont,
     asciiTheme |-> NoneFont, hAnsiTheme |-> NoneFont]

\* The run properties of a run made by paragraph.add_run("")
EmptyRPr ==
    [style |-> None, bold |-> None, italic |-> None, underline |-> None,
     size |-> None, all_caps |-> None, small_caps |-> None,
     color |-> [rgb |-> None, theme_color |-> None],
     rFonts |-> NoRFonts]

\* run.font.name or ""
FontName(run) ==
    IF run.rPr.rFonts.ascii = NoneFont THEN <<>> ELSE run.rPr.rFonts.ascii

\* copy_rFonts that also copies nothing but the ascii and hAnsi slots
copy_rFonts_ascii_only(src_run, dst_run) ==
    IF ~src_run.rPr.rFonts.present THEN dst_run
    ELSE [dst_run EXCEPT !.rPr.rFonts =
              [NoRFonts EXCEPT !.present = TRUE,
                               !.ascii = src_run.rPr.rFonts.ascii,
                               !.hAnsi = src_run.rPr.rFonts.hAnsi]]

\* copy_rFonts that leaves the new run without the fonts of the source
copy_rFonts_skipped(src_run, dst_run) == dst_run

copy_rFonts(src_run, dst_run) ==
    IF ~src_run.rPr.rFonts.present THEN dst_run
    ELSE [dst_run EXCEPT !.rPr.rFonts = src_run.rPr.rFonts]

clone_run_style(src_run, dst_run) ==
    LET s_font == src_run.rPr
        d_color == dst_run.rPr.color
        styled ==
            [dst_run EXCEPT
                !.rPr.style = s_font.style,
                !.rPr.bold = s_font.bold,
                !.rPr.italic = s_font.italic,
                !.rPr.underline = s_font.underline,
                !.rPr.size = s_font.size,
                !.rPr.all_caps = s_font.all_caps,
                !.rPr.small_caps = s_font.small_caps,
                !.rPr.color =
                    [rgb |-> IF s_font.color.rgb # None
                             THEN s_font.color.rgb ELSE d_color.rgb,
                     theme_color |-> IF s_font.color.theme_color # None
                                     THEN s_font.color.theme_color
                                     ELSE d_color.theme_color]]
    IN copy_rFonts(src_run, styled)

\* The ascii slot alone set
set_ascii_only(run, font_name) ==
    [run EXCEPT !.rPr.rFonts =
        [@ EXCEPT !.present = TRUE,
                  !.ascii = font_name,
                  !.asciiTheme = NoneFont]]

set_ascii_hAnsi(run, font_name) ==
    [run EXCEPT !.rPr.rFonts =
        [@ EXCEPT !.present = TRUE,
                  !.ascii = font_name,
                  !.hAnsi = font_name,
                  !.asciiTheme = NoneFont,
                  !.hAnsiTheme = NoneFont]]

_is_run_in_hyperlink(run) == run.kind = "hyperlink"

_is_run_field_code(run) == run.kind = "field"

\* Position in the paragraph of the run object with this id
IndexOf(p, id) == CHOOSE k \in DOMAIN p : p[k].id = id

RunOf(p, id) == p[IndexOf(p, id)]

\* The new run left where paragraph.add_run puts it, at the end
_insert_run_at_end(p, anchor_r, src) ==
    Append(p, [id |-> Len(p) + 1, src |-> src, relabelled |-> FALSE,
               kind |-> "plain", text |-> <<>>, rPr |-> EmptyRPr])

\* A new empty run, placed immediately after the run anchor_r.  The new
\* run is a plain sibling of the anchor.
_insert_run_after(p, anchor_r, src) ==
    LET k == IndexOf(p, anchor_r)
        new_run == [id |-> Len(p) + 1, src |-> src, relabelled |-> FALSE,
                    kind |-> "plain", text |-> <<>>, rPr |-> EmptyRPr]
    IN SubSeq(p, 1, k) \o <<new_run>> \o SubSeq(p, k + 1, Len(p))

\* run.text = value / any other change of the run object id
SetRun(p, id, new_run) == [p EXCEPT ![IndexOf(p, id)] = new_run]

\* A run that is taken out of the paragraph when its text is set to ""
SetText_removing_emptied(p, id, t) ==
    IF t = <<>> THEN SelectSeq(p, LAMBDA r : r.id # id)
    ELSE [p EXCEPT ![IndexOf(p, id)].text = t]

SetText(p, id, t) == [p EXCEPT ![IndexOf(p, id)].text = t]

(***************************************************************************)
(* Run rewriter (frequency mode).                                          *)
(***************************************************************************)
\* The element of a one-element set.  "TheOne({e(x) : x \in {v}})" is e(v)
\* with v computed once, where LET would compute it at every use.
TheOne(S) == CHOOSE x \in S : TRUE

\* "new_run = _insert_run_after(paragraph, anchor); new_run.text = t;
\*  clone_run_style(run, new_run)", followed when make_tnr by
\* "set_ascii_hAnsi(new_run, 'Times New Roman')".  The new run is the one
\* with the highest id.
StyledRunAfter(p, anchor, run, t, make_tnr) ==
    TheOne({SetRun(q, Len(q),
                IF make_tnr
                THEN [set_ascii_hAnsi(
                          clone_run_style(run,
                              [RunOf(q, Len(q)) EXCEPT !.text = t]),
                          TimesNewRoman)
                          EXCEPT !.relabelled = TRUE]
                ELSE clone_run_style(run,
                         [RunOf(q, Len(q)) EXCEPT !.text = t])) :
        q \in {_insert_run_after(p, anchor, run.id)}})

RECURSIVE EmitChunks(_, _, _, _, _)
\* The loop of process_run over the chunks still to emit; anchor is the id
\* of the run the next one goes after
EmitChunks(p, run, chunks, anchor, thr) ==
    IF chunks = <<>> THEN p
    ELSE TheOne({EmitChunks(q, run, Tail(chunks), Len(q), thr) :
             q \in {StyledRunAfter(p, anchor, run, Head(chunks),
                        /\ EN_LIKE_WORD_RE(Head(chunks))
                        /\ should_use_tnr(Head(chunks), thr,
                                          FontName(run)))}})

\* Number of chunks process_run relabels
CountTnr(run, chunks, thr) ==
    Cardinality({k \in DOMAIN chunks :
        /\ EN_LIKE_WORD_RE(chunks[k])
        /\ should_use_tnr(chunks[k], thr, FontName(run))})

\* process_run below its checks, for a run whose text gives these chunks
RewriteRun(p, run, chunks, thr) ==
    IF chunks = <<>> THEN [p |-> p, scanned |-> 1, changed |-> 0]
    ELSE [p |-> SetText(EmitChunks(p, run, chunks, run.id, thr), run.id, <<>>),
          scanned |-> 1,
          changed |-> CountTnr(run, chunks, thr)]

\* process_run without the hyperlink and field-code checks
process_run_unprotected(p, id, thr) ==
    TheOne({IF sanitize_text(run.text) = <<>>
            THEN [p |-> p, scanned |-> 0, changed |-> 0]
            ELSE TheOne({RewriteRun(p, run, chunks, thr) :
                     chunks \in {split_into_chunks(sanitize_text(run.text))}}) :
        run \in {RunOf(p, id)}})

\* process_run: the paragraph after the call and the tuple it returns
process_run(p, id, thr) ==
    TheOne({IF sanitize_text(run.text) = <<>>
            THEN [p |-> p, scanned |-> 0, changed |-> 0]
            ELSE IF _is_run_in_hyperlink(run)
                 THEN [p |-> p, scanned |-> 1, changed |-> 0]
            ELSE IF _is_run_field_code(run)
                 THEN [p |-> p, scanned |-> 1, changed |-> 0]
            ELSE TheOne({RewriteRun(p, run, chunks, thr) :
                     chunks \in {split_into_chunks(sanitize_text(run.text))}}) :
        run \in {RunOf(p, id)}})

(***************************************************************************)
(* Sentence matcher (sentence mode).  Offsets are 0-based, as in the code. *)
(***************************************************************************)
\* text[a:b]
Slice(t, a, b) == SubSeq(t, a + 1, b)

RECURSIVE MapFrom(_, _, _)
MapFrom(p, k, cursor) ==
    IF k > Len(p) THEN <<>>
    ELSE <<[run |-> p[k].id, start |-> cursor,
            end |-> cursor + Len(p[k].text)]>>
         \o MapFrom(p, k + 1, cursor + Len(p[k].text))

build_paragraph_text_map(p) ==
    [full_text |-> Concat([k \in DOMAIN p |-> p[k].text]),
     mapping |-> MapFrom(p, 1, 0)]

\* The search of a pattern compiled with re.IGNORECASE
Search_ignoring_case(full_text, sent, pos) ==
    LET starts == {m \in pos..(Len(full_text) - Len(sent)) :
                       LowerStr(Slice(full_text, m, m + Len(sent)))
                           = LowerStr(sent)}
    IN IF starts = {} THEN -1
       ELSE CHOOSE m \in starts : \A n \in starts : m <= n

\* pattern.search(full_text, pos): the start of the leftmost occurrence at
\* or after pos, or -1
Search(full_text, sent, pos) ==
    LET starts == {m \in pos..(Len(full_text) - Len(sent)) :
                       Slice(full_text, m, m + Len(sent)) = sent}
    IN IF starts = {} THEN -1
       ELSE CHOOSE m \in starts : \A n \in starts : m <= n

Max(a, b) == IF a >= b THEN a ELSE b
Min(a, b) == IF a <= b THEN a ELSE b

\* The insertions of split_run_apply_tnr without the run for the text
\* behind the slice
SplitText_without_after(p, run, before, target, after) ==
    TheOne({TheOne({SetText(p2, run.id, <<>>) :
        p2 \in {StyledRunAfter(p1, IF before # <<>> THEN Len(p1) ELSE run.id,
                               run, target, TRUE)}}) :
        p1 \in {IF before # <<>>
                THEN StyledRunAfter(p, run.id, run, before, FALSE)
                ELSE p}})

\* The three insertions of split_run_apply_tnr and the clearing of the run
SplitText(p, run, before, target, after) ==
    TheOne({TheOne({TheOne({SetText(p3, run.id, <<>>) :
        p3 \in {IF after # <<>>
                THEN StyledRunAfter(p2, Len(p2), run, after, FALSE)
                ELSE p2}}) :
        p2 \in {StyledRunAfter(p1, IF before # <<>> THEN Len(p1) ELSE run.id,
                               run, target, TRUE)}}) :
        p1 \in {IF before # <<>>
                THEN StyledRunAfter(p, run.id, run, before, FALSE)
                ELSE p}})

\* The body of split_run_apply_tnr below its protection check
SplitRun(p, id, ls, le) ==
    LET t == RunOf(p, id).text
        local_start == IF ls < 0 THEN 0 ELSE ls
        local_end == IF le > Len(t) THEN Len(t) ELSE le
    IN IF local_start >= local_end THEN p
       ELSE SplitText(p, RunOf(p, id), Slice(t, 0, local_start),
                      Slice(t, local_start, local_end),
                      Slice(t, local_end, Len(t)))

\* split_run_apply_tnr without its protection check
split_run_apply_tnr_unprotected(p, id, ls, le) == SplitRun(p, id, ls, le)

split_run_apply_tnr(p, id, ls, le) ==
    IF _is_run_in_hyperlink(RunOf(p, id)) \/ _is_run_field_code(RunOf(p, id))
    THEN p
    ELSE SplitRun(p, id, ls, le)

RECURSIVE ApplyToOverlaps(_, _, _, _)
\* The for loop of apply_sentence_to_paragraph over the rest of the mapping
ApplyToOverlaps(p, mapping, g_start, g_end) ==
    IF mapping = <<>> THEN p
    ELSE TheOne({ApplyToOverlaps(p1, Tail(mapping), g_start, g_end) :
             p1 \in {LET e == Head(mapping)
                         overlap_start == Max(g_start, e.start)
                         overlap_end == Min(g_end, e.end)
                     IN IF overlap_start < overlap_end
                        THEN split_run_apply_tnr(p, e.run,
                                 overlap_start - e.start,
                                 overlap_end - e.start)
                        ELSE p}})

(***************************************************************************)
(* The paragraph functions as whole calls, and the traversal of the        *)
(* document.  A paragraph of a document is [pid, runs]: pid names its      *)
(* place in the document, runs is the paragraph as above.  A table is the  *)
(* sequence of its cells in the order of "for row in table.rows: for cell  *)
(* in row.cells"; a cell is [paragraphs, tables].  A log entry records one *)
(* call on a paragraph and what it returned.                               *)
(***************************************************************************)
RECURSIVE ProcessRuns(_, _, _)
\* The loop of process_paragraph over the run ids still to process
ProcessRuns(p, ids, thr) ==
    IF ids = <<>> THEN [p |-> p, scanned |-> 0, changed |-> 0]
    ELSE TheOne({TheOne({[p |-> rest.p,
                          scanned |-> r.scanned + rest.scanned,
                          changed |-> r.changed + rest.changed] :
                     rest \in {ProcessRuns(r.p, Tail(ids), thr)}}) :
             r \in {process_run(p, Head(ids), thr)}})

\* process_paragraph: the paragraph after the call and the tuple it returns
process_paragraph(p, thr) ==
    ProcessRuns(p, [k \in DOMAIN p |-> p[k].id], thr)

RECURSIVE SentenceLoop(_, _, _, _)
\* The while loop counting a match only when it changed the font of a
\* character
SentenceLoop_counting_changes(p, sent, from, count) ==
    LET m == build_paragraph_text_map(p)
        g_start == IF m.full_text = <<>> \/ from >= Len(m.full_text) THEN -1
                   ELSE Search(m.full_text, sent, from)
        g_end == g_start + Len(sent)
    IN IF g_start < 0 THEN [p |-> p, converted |-> count]
       ELSE TheOne({SentenceLoop(q, sent, g_end,
                        IF Concat([k \in DOMAIN q |->
                               [i \in 1..Len(q[k].text) |->
                                   q[k].rPr.rFonts.ascii]])
                           = Concat([k \in DOMAIN p |->
                                 [i \in 1..Len(p[k].text) |->
                                     p[k].rPr.rFonts.ascii]])
                        THEN count ELSE count + 1) :
                q \in {ApplyToOverlaps(p, m.mapping, g_start, g_end)}})

\* The while loop of apply_sentence_to_paragraph
SentenceLoop(p, sent, from, count) ==
    LET m == build_paragraph_text_map(p)
        g_start == IF m.full_text = <<>> \/ from >= Len(m.full_text) THEN -1
                   ELSE Search(m.full_text, sent, from)
        g_end == g_start + Len(sent)
    IN IF g_start < 0 THEN [p |-> p, converted |-> count]
       ELSE TheOne({SentenceLoop(q, sent, g_end, count + 1) :
                q \in {ApplyToOverlaps(p, m.mapping, g_start, g_end)}})

\* apply_sentence_to_paragraph: the paragraph after the call and the count
\* it returns
apply_sentence_to_paragraph(p, sent) ==
    IF sent = <<>> THEN [p |-> p, converted |-> 0]
    ELSE SentenceLoop(p, sent, 0, 0)

\* The counters after one more paragraph, whose call returned r
CountParagraph(c, pid, r) ==
    [log |-> Append(c.log, [pid |-> pid, scanned |-> r.scanned,
                            changed |-> r.changed]),
     paragraphs |-> c.paragraphs + 1,
     runs_scanned |-> c.runs_scanned + r.scanned,
     english_changed |-> c.english_changed + r.changed]

\* The counters after "p2, r2, e2 = process_table(...)" and the additions
CountTable(c, r) ==
    [log |-> r.log,
     paragraphs |-> c.paragraphs + r.paragraphs,
     runs_scanned |-> c.runs_scanned + r.runs_scanned,
     english_changed |-> c.english_changed + r.english_changed]

RECURSIVE ProcessParagraphs(_, _, _)
\* "for p in x.paragraphs: n += 1; process_paragraph(p, threshold); ..."
\* c is [log, paragraphs, runs_scanned, english_changed]
ProcessParagraphs(paras, thr, c) ==
    IF paras = <<>> THEN [paragraphs |-> <<>>, c |-> c]
    ELSE TheOne({TheOne({[paragraphs |->
                              <<[Head(paras) EXCEPT !.runs = r.p]>>
                                  \o rest.paragraphs,
                          c |-> rest.c] :
                     rest \in {ProcessParagraphs(Tail(paras), thr,
                                   CountParagraph(c, Head(paras).pid, r))}}) :
             r \in {process_paragraph(Head(paras).runs, thr)}})

RECURSIVE process_table(_, _, _)
RECURSIVE ProcessCells(_, _, _)
RECURSIVE ProcessNested(_, _, _)
\* "for nested in cell.tables: p2, r2, e2 = process_table(nested); += ..."
ProcessNested(tables, thr, c) ==
    IF tables = <<>> THEN [tables |-> <<>>, c |-> c]
    ELSE TheOne({TheOne({[tables |-> <<r.table>> \o rest.tables,
                          c |-> rest.c] :
                     rest \in {ProcessNested(Tail(tables), thr,
                                             CountTable(c, r))}}) :
             r \in {process_table(Head(tables), thr, c.log)}})

\* The loops of process_table over the cells still to visit
ProcessCells(cells, thr, c) ==
    IF cells = <<>> THEN [cells |-> <<>>, c |-> c]
    ELSE TheOne({TheOne({TheOne({
             [cells |-> <<[paragraphs |-> ps.paragraphs,
                           tables |-> ts.tables]>> \o rest.cells,
              c |-> rest.c] :
                 rest \in {ProcessCells(Tail(cells), thr, ts.c)}}) :
             ts \in {ProcessNested(Head(cells).tables, thr, ps.c)}}) :
             ps \in {ProcessParagraphs(Head(cells).paragraphs, thr, c)}})

\* process_table that returns only the counts of the table's own cells
process_table_no_nested_counts(table, thr, log) ==
    TheOne({[table |-> r.cells, log |-> r.c.log,
             paragraphs |-> Len(Concat(
                 [k \in DOMAIN table |-> table[k].paragraphs])),
             runs_scanned |-> r.c.runs_scanned,
             english_changed |-> r.c.english_changed] :
        r \in {ProcessCells(table, thr,
                   [log |-> log, paragraphs |-> 0, runs_scanned |-> 0,
                    english_changed |-> 0])}})

\* process_table: the table after the call, the log, and the tuple returned
process_table(table, thr, log) ==
    TheOne({[table |-> r.cells, log |-> r.c.log,
             paragraphs |-> r.c.paragraphs,
             runs_scanned |-> r.c.runs_scanned,
             english_changed |-> r.c.english_changed] :
        r \in {ProcessCells(table, thr,
                   [log |-> log, paragraphs |-> 0, runs_scanned |-> 0,
                    english_changed |-> 0])}})

NoCounts == [paragraphs |-> 0, runs_scanned |-> 0, english_changed |-> 0]

\* "for t in x.tables: p2, r2, e2 = process_table(t, threshold); += ..." of
\* convert_docx and process_headers_footers: the same loop as in a cell
ProcessTables(tables, thr, c) == ProcessNested(tables, thr, c)

\* The header or the footer of one section in process_headers_footers
ProcessPart(part, thr, c) ==
    TheOne({TheOne({[part |-> [paragraphs |-> ps.paragraphs,
                               tables |-> ts.tables],
                     c |-> ts.c] :
                ts \in {ProcessTables(part.tables, thr, ps.c)}}) :
        ps \in {ProcessParagraphs(part.paragraphs, thr, c)}})

RECURSIVE ProcessSections(_, _, _, _)
\* The loop of process_headers_footers over the sections still to visit;
\* hdr and ftr are the two groups of counters, the log is carried in hdr
\* while a header is processed and in ftr while a footer is
ProcessSections(sections, thr, hdr, ftr) ==
    IF sections = <<>> THEN [sections |-> <<>>, hdr |-> hdr, ftr |-> ftr]
    ELSE TheOne({TheOne({TheOne({
             [sections |-> <<[header |-> h.part, footer |-> f.part]>>
                               \o rest.sections,
              hdr |-> rest.hdr, ftr |-> rest.ftr] :
                 rest \in {ProcessSections(Tail(sections), thr,
                               [h.c EXCEPT !.log = f.c.log], f.c)}}) :
             f \in {ProcessPart(Head(sections).footer, thr,
                                [ftr EXCEPT !.log = h.c.log])}}) :
             h \in {ProcessPart(Head(sections).header, thr, hdr)}})

\* process_headers_footers: the sections after the call, the log, and the
\* two tuples returned
process_headers_footers(d, thr, log) ==
    TheOne({[sections |-> r.sections, log |-> r.ftr.log,
             hdr |-> [paragraphs |-> r.hdr.paragraphs,
                      runs_scanned |-> r.hdr.runs_scanned,
                      english_changed |-> r.hdr.english_changed],
             ftr |-> [paragraphs |-> r.ftr.paragraphs,
                      runs_scanned |-> r.ftr.runs_scanned,
                      english_changed |-> r.ftr.english_changed]] :
        r \in {ProcessSections(d.sections, thr,
                   [log |-> log, paragraphs |-> 0, runs_scanned |-> 0,
                    english_changed |-> 0],
                   [log |-> log, paragraphs |-> 0, runs_scanned |-> 0,
                    english_changed |-> 0])}})

RECURSIVE ApplySentences(_, _, _)
\* "for s in sentences: total_converted += apply_sentence_to_paragraph(p, s)"
\* t is [log, total_converted]
ApplySentences(para, sentences, t) ==
    IF sentences = <<>> THEN [paragraph |-> para, t |-> t]
    ELSE TheOne({ApplySentences([para EXCEPT !.runs = r.p], Tail(sentences),
                     [log |-> Append(t.log, [pid |-> para.pid,
                                             sentence |-> Head(sentences),
                                             converted |-> r.converted]),
                      total_converted |-> t.total_converted + r.converted]) :
             r \in {apply_sentence_to_paragraph(para.runs, Head(sentences))}})

RECURSIVE process_paragraphs(_, _, _)
\* process_paragraphs, the helper of apply_sentences_docx
process_paragraphs(paras, sentences, t) ==
    IF paras = <<>> THEN [paragraphs |-> <<>>, t |-> t]
    ELSE TheOne({TheOne({[paragraphs |-> <<r.paragraph>> \o rest.paragraphs,
                          t |-> rest.t] :
                     rest \in {process_paragraphs(Tail(paras), sentences,
                                                  r.t)}}) :
             r \in {ApplySentences(Head(paras), sentences, t)}})

RECURSIVE InnerCells(_, _, _)
\* "for row in t.rows: for cell in row.cells:
\*      process_paragraphs(cell.paragraphs)"
\* the loops over a table nested in a body cell and over a header or
\* footer table: the tables of these cells are not visited
InnerCells(cells, sentences, t) ==
    IF cells = <<>> THEN [cells |-> <<>>, t |-> t]
    ELSE TheOne({TheOne({
             [cells |-> <<[Head(cells) EXCEPT !.paragraphs = ps.paragraphs]>>
                            \o rest.cells,
              t |-> rest.t] :
                 rest \in {InnerCells(Tail(cells), sentences, ps.t)}}) :
             ps \in {process_paragraphs(Head(cells).paragraphs, sentences,
                                        t)}})

RECURSIVE InnerTables(_, _, _)
\* "for nt in cell.tables: ..." and "for t in hdr.tables: ..."
InnerTables(tables, sentences, t) ==
    IF tables = <<>> THEN [tables |-> <<>>, t |-> t]
    ELSE TheOne({TheOne({[tables |-> <<r.cells>> \o rest.tables,
                          t |-> rest.t] :
                     rest \in {InnerTables(Tail(tables), sentences, r.t)}}) :
             r \in {InnerCells(Head(tables), sentences, t)}})

RECURSIVE OuterCells(_, _, _)
\* The loops of apply_sentences_docx over the cells of a body table
OuterCells(cells, sentences, t) ==
    IF cells = <<>> THEN [cells |-> <<>>, t |-> t]
    ELSE TheOne({TheOne({TheOne({
             [cells |-> <<[paragraphs |-> ps.paragraphs,
                           tables |-> ts.tables]>> \o rest.cells,
              t |-> rest.t] :
                 rest \in {OuterCells(Tail(cells), sentences, ts.t)}}) :
             ts \in {InnerTables(Head(cells).tables, sentences, ps.t)}}) :
             ps \in {process_paragraphs(Head(cells).paragraphs, sentences,
                                        t)}})

RECURSIVE OuterTables(_, _, _)
\* "for t in doc.tables: ..."
OuterTables(tables, sentences, t) ==
    IF tables = <<>> THEN [tables |-> <<>>, t |-> t]
    ELSE TheOne({TheOne({[tables |-> <<r.cells>> \o rest.tables,
                          t |-> rest.t] :
                     rest \in {OuterTables(Tail(tables), sentences, r.t)}}) :
             r \in {OuterCells(Head(tables), sentences, t)}})

\* The header or the footer of one section in apply_sentences_docx
SentencesPart(part, sentences, t) ==
    TheOne({TheOne({[part |-> [paragraphs |-> ps.paragraphs,
                               tables |-> ts.tables],
                     t |-> ts.t] :
                ts \in {InnerTables(part.tables, sentences, ps.t)}}) :
        ps \in {process_paragraphs(part.paragraphs, sentences, t)}})

RECURSIVE SentencesSections(_, _, _)
\* "for section in doc.sections: ..." of apply_sentences_docx
SentencesSections(sections, sentences, t) ==
    IF sections = <<>> THEN [sections |-> <<>>, t |-> t]
    ELSE TheOne({TheOne({TheOne({
             [sections |-> <<[header |-> h.part, footer |-> f.part]>>
                               \o rest.sections,
              t |-> rest.t] :
                 rest \in {SentencesSections(Tail(sections), sentences,
                                             f.t)}}) :
             f \in {SentencesPart(Head(sections).footer, sentences, h.t)}}) :
             h \in {SentencesPart(Head(sections).header, sentences, t)}})

\* The traversal of apply_sentences_docx as one call: the document after
\* it, the log and total_converted
apply_sentences_traversal(d, sentences) ==
    TheOne({TheOne({TheOne({
        [doc |-> [paragraphs |-> b.paragraphs, tables |-> t.tables,
                  sections |-> x.sections],
         log |-> x.t.log,
         total_converted |-> x.t.total_converted] :
            x \in {SentencesSections(d.sections, sentences, t.t)}}) :
            t \in {OuterTables(d.tables, sentences, b.t)}}) :
            b \in {process_paragraphs(d.paragraphs, sentences,
                       [log |-> <<>>, total_converted |-> 0])}})

(***************************************************************************)
(* Sentence extraction and the sentence list of main().                    *)
(***************************************************************************)
IsUpper(c) == c \in Range(UpperLetters)
IsLower(c) == c \in Range(LowerLetters)
IsDigit(c) == c \in {"0","1","2","3","4","5","6","7","8","9"}

\* \w
IsWord(c) == IsLatin(c) \/ IsDigit(c) \/ c = "_"

\* [.!?]
IsTerminal(c) == c \in {".", "!", "?"}

RECURSIVE LStrip(_)
LStrip(t) == IF t # <<>> /\ IsSpace(Head(t)) THEN LStrip(Tail(t)) ELSE t

RECURSIVE RStrip(_)
RStrip(t) ==
    IF t # <<>> /\ IsSpace(t[Len(t)]) THEN RStrip(SubSeq(t, 1, Len(t) - 1))
    ELSE t

\* str.strip()
Strip(t) == RStrip(LStrip(t))

RECURSIVE SplitOn(_, _)
\* str.split(sep) for a one-character separator
SplitOn(t, sep) ==
    IF \A k \in DOMAIN t : t[k] # sep THEN <<t>>
    ELSE LET k == CHOOSE i \in DOMAIN t :
                      t[i] = sep /\ \A j \in 1..(i - 1) : t[j] # sep
         IN <<SubSeq(t, 1, k - 1)>> \o SplitOn(SubSeq(t, k + 1, Len(t)), sep)

RECURSIVE Dedupe(_, _)
\* The loop "if s2 and s2 not in seen": stripped, non-empty, first-seen order
Dedupe(items, seen) ==
    IF items = <<>> THEN <<>>
    ELSE LET s2 == Strip(Head(items)) IN
         IF s2 # <<>> /\ s2 \notin seen
         THEN <<s2>> \o Dedupe(Tail(items), seen \cup {s2})
         ELSE Dedupe(Tail(items), seen)

\* The two negative lookbehinds of SENTENCE_SPLIT_RE hold at offset i
LookbehindsHold(t, i) ==
    /\ ~(i >= 3 /\ IsWord(t[i - 2]) /\ t[i - 1] = "." /\ IsLatin(t[i]))
    /\ ~(i >= 3 /\ IsUpper(t[i - 2]) /\ IsLower(t[i - 1]) /\ t[i] = ".")

\* Indices e of a terminal character that can end group 1 when it starts at
\* offset j: a non-empty body without newline before it, whitespace or the
\* end of the text after it
GroupEnds(t, j) ==
    {e \in (j + 2)..Len(t) :
        /\ \A k \in (j + 1)..(e - 1) : t[k] # "\n"
        /\ IsTerminal(t[e])
        /\ (e = Len(t) \/ IsSpace(t[e + 1]))}

\* SENTENCE_SPLIT_RE matched at offset i: [start, last, stop] of group 1 and
\* of the match, or stop = -1 when it does not match there
SENTENCE_SPLIT_RE(t, i) ==
    LET ws == IF i + 1 <= Len(t) /\ IsSpace(t[i + 1])
              THEN SpanEnd(t, i + 1, "space") - i ELSE 0
        skips == {k \in 0..ws : GroupEnds(t, i + k) # {}}
    IN IF ~LookbehindsHold(t, i) \/ skips = {}
       THEN [start |-> 0, last |-> 0, stop |-> -1]
       ELSE LET k == CHOOSE x \in skips : \A y \in skips : y <= x
                e == CHOOSE x \in GroupEnds(t, i + k) :
                         \A y \in GroupEnds(t, i + k) : x <= y
            IN [start |-> i + k, last |-> e,
                stop |-> IF e < Len(t) THEN SpanEnd(t, e + 1, "space") ELSE e]

RECURSIVE FindSentences(_, _)
\* SENTENCE_SPLIT_RE.finditer(text) from offset i: group 1 of each match,
\* stripped
FindSentences(t, i) ==
    IF i >= Len(t) THEN <<>>
    ELSE LET m == SENTENCE_SPLIT_RE(t, i) IN
         IF m.stop < 0 THEN FindSentences(t, i + 1)
         ELSE <<Strip(SubSeq(t, m.start + 1, m.last))>>
                  \o FindSentences(t, m.stop)

extract_sentences(t) ==
    IF t = <<>> THEN <<>> ELSE Dedupe(FindSentences(t, 0), {})

RECURSIVE SentencesOfItems(_)
\* main(): the loop over the comma-separated items of --sentences
SentencesOfItems(items) ==
    IF items = <<>> THEN <<>>
    ELSE LET item == Strip(Head(items))
             ext == extract_sentences(item)
         IN (IF item = <<>> THEN <<>>
             ELSE IF ext # <<>> THEN ext ELSE <<item>>)
            \o SentencesOfItems(Tail(items))

(***************************************************************************)
(* Paths.  A path is the components of its directory part, and the stem    *)
(* and extension of its last component; given is FALSE for None or "".     *)
(***************************************************************************)
NoPath == [given |-> FALSE, dir |-> <<>>, stem |-> <<>>, ext |-> ""]

cwd == <<"home">>

RECURSIVE NormDir(_, _)
\* os.path.normpath on the directory components of an absolute path
NormDir(comps, acc) ==
    IF comps = <<>> THEN acc
    ELSE IF Head(comps) = "." THEN NormDir(Tail(comps), acc)
    ELSE IF Head(comps) = ".."
         THEN NormDir(Tail(comps),
                      IF acc = <<>> THEN acc ELSE SubSeq(acc, 1, Len(acc) - 1))
    ELSE NormDir(Tail(comps), Append(acc, Head(comps)))

\* os.path.abspath that returns its argument as it is
abspath_unnormalized(path) == path

\* os.path.abspath
abspath(path) == [path EXCEPT !.dir = NormDir(cwd \o path.dir, <<>>)]

\* The file the operating system reaches through a path
Resolve(path) == [path EXCEPT !.dir = NormDir(cwd \o path.dir, <<>>)]

\* f"{base}_fixed{ext or '.docx'}" with base, ext = os.path.splitext(in_path)
FixedPath(in_path) ==
    [in_path EXCEPT !.stem = Append(@, "_fixed"),
                    !.ext = IF @ = "" THEN ".docx" ELSE @]

\* convert_docx: the path handed to doc.save
convert_docx_out_path(in_path, out_path) ==
    LET out1 == IF ~out_path.given THEN FixedPath(in_path) ELSE out_path
    IN IF abspath(out1) = abspath(in_path) THEN FixedPath(in_path) ELSE out1

\* apply_sentences_docx: the path handed to doc.save
apply_sentences_out_path(in_path, out_path) ==
    LET out1 == IF ~out_path.given THEN FixedPath(in_path) ELSE out_path
    IN IF abspath(out1) = abspath(in_path) THEN FixedPath(in_path) ELSE out1

(***************************************************************************)
(* Inputs of the paragraph specifications.                                 *)
(***************************************************************************)
Vrinda == <<"V","r","i","n","d","a">>
Mangal == <<"M","a","n","g","a","l">>

\* A run formatted in the legacy font, with every property set
SutonnyRPr ==
    [style |-> "Emphasis", bold |-> "True", italic |-> "False",
     underline |-> "True", size |-> "14pt", all_caps |-> "False",
     small_caps |-> "True",
     color |-> [rgb |-> "FF0000", theme_color |-> "ACCENT_1"],
     rFonts |-> [present |-> TRUE, ascii |-> SutonnyMJ, hAnsi |-> SutonnyMJ,
                 eastAsia |-> Vrinda, cs |-> Mangal, hint |-> <<"cs">>,
                 asciiTheme |-> <<"minorHAnsi">>,
                 hAnsiTheme |-> <<"minorHAnsi">>]]

\* A run whose rFonts names Times New Roman for ascii only
TimesRPr ==
    [EmptyRPr EXCEPT !.italic = "True",
                     !.rFonts = [NoRFonts EXCEPT !.present = TRUE,
                                                 !.ascii = TimesNewRoman,
                                                 !.cs = Vrinda]]

RunFormats ==
    {[kind |-> "plain", rPr |-> SutonnyRPr],
     [kind |-> "plain", rPr |-> TimesRPr],
     [kind |-> "plain", rPr |-> EmptyRPr],
     [kind |-> "hyperlink", rPr |-> SutonnyRPr],
     [kind |-> "field", rPr |-> EmptyRPr]}

ParaAlphabet == {"a", " ", "\f"}
RunCounts == {1, 2}
Sentences == {<<>>, <<"a">>, <<"a", "a">>, <<"a", " ">>, <<"A">>}

TotalLen(texts) == Len(Concat(texts))

MakeParagraph(texts, fmts) ==
    [k \in DOMAIN texts |->
        [id |-> k, src |-> 0, relabelled |-> FALSE, kind |-> fmts[k].kind,
         text |-> texts[k], rPr |-> fmts[k].rPr]]

Paragraphs ==
    UNION {{MakeParagraph(texts, fmts) :
                texts \in {t \in [1..n -> StringsUpTo(ParaAlphabet, MaxParaLen)] :
                               TotalLen(t) <= MaxParaLen},
                fmts \in [1..n -> RunFormats]} : n \in RunCounts}

\* Two runs of several chunks each: "aa " followed by " aa"
LongParagraphs ==
    {MakeParagraph(<< <<"a", "a", " ">>, <<" ", "a", "a">> >>, fmts) :
         fmts \in [1..2 -> RunFormats]}

\* The words process_paragraph can ask the oracle about
ParagraphWords(p) ==
    UNION {{OracleWord(c) :
                c \in {d \in Range(split_into_chunks(sanitize_text(p[k].text))) :
                           EN_LIKE_WORD_RE(d)}}
               : k \in DOMAIN p}

PureIdle ==
    /\ text = <<>>
    /\ src_font_name = NoneStr

NoFailure == [at |-> None, error |-> None]

CliIdle ==
    /\ failure = NoFailure
    /\ args = None
    /\ files = {}
    /\ ordered = <<>>
    /\ opened = FALSE
    /\ processed = FALSE
    /\ written = {}
    /\ exit_code = -1

NoDocument == [paragraphs |-> <<>>, tables |-> <<>>, sections |-> <<>>]

NoCounts3 == [body |-> NoCounts, hdr |-> NoCounts, ftr |-> NoCounts]

DocIdle ==
    /\ doc = NoDocument
    /\ input_doc = NoDocument
    /\ doc_sentences = <<>>
    /\ dry_run = FALSE
    /\ call_log = <<>>
    /\ counts = NoCounts3
    /\ total_converted = 0
    /\ saved = "no"

NoPlatform == [os_name |-> None, loop_raises |-> FALSE]

NoListbox == [items |-> <<>>, selection |-> {}]

NoEvent == [handler |-> None, paths |-> <<>>]

\* No thread: on_combine has not been called, or its thread is over and
\* _combine_complete or _combine_failed has run
NoWorker ==
    [state |-> "none", idx |-> 0, add_headers |-> FALSE, separator |-> <<>>,
     count |-> 0, skipped |-> <<>>, sources |-> <<>>]

NoSettings == [add_headers |-> FALSE, separator |-> <<>>]

AppIdle ==
    /\ platform = NoPlatform
    /\ self_files = <<>>
    /\ files_index = {}
    /\ lst_files = NoListbox
    /\ event = NoEvent
    /\ controls = <<>>
    /\ output_path_var = <<>>
    /\ settings = NoSettings
    /\ worker = NoWorker
    /\ out_f = <<>>

\* No thread of the OCR window
NoOcrThread ==
    [state |-> "none", input_files |-> <<>>, i |-> 0, success_count |-> 0,
     output_at_start |-> None]

OcrIdle ==
    /\ tesseract_available = FALSE
    /\ single_image_var = None
    /\ multiple_images_var = <<>>
    /\ folder_var = None
    /\ output_var = None
    /\ is_processing = FALSE
    /\ process_btn = None
    /\ ocr_thread = NoOcrThread
    /\ output_files = <<>>

ParaIdle ==
    /\ mode = None
    /\ paragraph = <<>>
    /\ input_runs = <<>>
    /\ first_pass = <<>>
    /\ original_runs = <<>>
    /\ run_idx = 0
    /\ runs_scanned = 0
    /\ english_changed = 0
    /\ sentence = <<>>
    /\ search_from = 0
    /\ converted = 0

(***************************************************************************)
(* SpecPure: the pure functions, each called once on inputs drawn from     *)
(* bounded sets.                                                           *)
(***************************************************************************)
PureAlphabet == {"a", "B", "'", " ", "1", "\f"}
PureFonts == {NoneStr, SutonnyMJ, TimesNewRoman}

\* The oracle: not installed, or a score for each word it can be asked about
Oracles(words) ==
    {[installed |-> FALSE, freq |-> <<>>]}
        \cup {[installed |-> TRUE, freq |-> f] :
                  f \in {g \in [words -> Scores] :
                             <<>> \in words => g[<<>>] = 0}}

NoReturn == [fn |-> None, val |-> None, raised |-> FALSE]

InitPure ==
    /\ pc = "call"
    /\ text \in StringsUpTo(PureAlphabet, MaxTextLen)
    /\ threshold \in Thresholds
    /\ src_font_name \in PureFonts
    /\ zipf \in Oracles({OracleWord(text)})
    /\ ret = NoReturn
    /\ ParaIdle
    /\ CliIdle
    /\ DocIdle
    /\ AppIdle
    /\ OcrIdle

Return(fn, val, raised) ==
    /\ pc = "call"
    /\ pc' = "returned"
    /\ ret' = [fn |-> fn, val |-> val, raised |-> raised]
    /\ UNCHANGED <<text, threshold, ocrVars, src_font_name, zipf, docVars, paraVars,
                   cliVars, appVars>>

Call_split_into_chunks ==
    Return("split_into_chunks", split_into_chunks(text), FALSE)

Call_sanitize_text == Return("sanitize_text", sanitize_text(text), FALSE)

Call_is_english_word ==
    Return("is_english_word", is_english_word(text, threshold),
           is_english_word_raises(text))

Call_should_use_tnr ==
    Return("should_use_tnr", should_use_tnr(text, threshold, src_font_name),
           should_use_tnr_raises(text))

NextPure ==
    \/ Call_split_into_chunks
    \/ Call_sanitize_text
    \/ Call_is_english_word
    \/ Call_should_use_tnr

SpecPure == InitPure /\ [][NextPure]_vars

(***************************************************************************)
(* SpecPara: process_paragraph (frequency mode) or                         *)
(* apply_sentence_to_paragraph (sentence mode) on one paragraph.  In       *)
(* frequency mode the oracle is installed: main() exits before             *)
(* convert_docx otherwise.                                                 *)
(***************************************************************************)
InitFrequency ==
    /\ mode = "frequency"
    /\ pc = "process_run"
    /\ paragraph \in Paragraphs \cup LongParagraphs
    /\ input_runs = paragraph
    /\ first_pass = <<>>
    /\ original_runs = [k \in DOMAIN paragraph |-> paragraph[k].id]
    /\ run_idx = 1
    /\ runs_scanned = 0
    /\ english_changed = 0
    /\ threshold = DefaultThreshold
    /\ zipf \in {o \in Oracles(ParagraphWords(paragraph)) : o.installed}
    /\ sentence = <<>>
    /\ search_from = 0
    /\ converted = 0
    /\ ret = NoReturn
    /\ PureIdle
    /\ CliIdle
    /\ DocIdle
    /\ AppIdle
    /\ OcrIdle

InitSentence ==
    /\ mode = "sentence"
    /\ pc = "apply_sentence"
    /\ paragraph \in Paragraphs
    /\ input_runs = paragraph
    /\ first_pass = <<>>
    /\ original_runs = <<>>
    /\ run_idx = 0
    /\ runs_scanned = 0
    /\ english_changed = 0
    /\ threshold = DefaultThreshold
    /\ zipf \in Oracles({})
    /\ sentence \in Sentences
    /\ search_from = 0
    /\ converted = 0
    /\ ret = NoReturn
    /\ PureIdle
    /\ CliIdle
    /\ DocIdle
    /\ AppIdle
    /\ OcrIdle

InitPara == InitFrequency \/ InitSentence

\* One iteration of the loop of process_paragraph
ProcessRun ==
    /\ pc = "process_run"
    /\ run_idx <= Len(original_runs)
    /\ LET r == process_run(paragraph, original_runs[run_idx], threshold) IN
        /\ paragraph' = r.p
        /\ runs_scanned' = runs_scanned + r.scanned
        /\ english_changed' = english_changed + r.changed
    /\ run_idx' = run_idx + 1
    /\ UNCHANGED <<pc, threshold, ocrVars, zipf, docVars, appVars, pureVars, mode, input_runs,
                   first_pass,
                   original_runs, sentence, search_from, converted, cliVars>>

ProcessParagraphReturn ==
    /\ pc = "process_run"
    /\ run_idx > Len(original_runs)
    /\ pc' = "done"
    /\ ret' = [fn |-> "process_paragraph",
               val |-> <<runs_scanned, english_changed>>, raised |-> FALSE]
    /\ UNCHANGED <<appVars, threshold, ocrVars, zipf, docVars, text, src_font_name, paraVars, cliVars>>

\* apply_sentence_to_paragraph with an empty sentence
ApplySentenceEmpty ==
    /\ pc = "apply_sentence"
    /\ sentence = <<>>
    /\ pc' = "done"
    /\ ret' = [fn |-> "apply_sentence_to_paragraph", val |-> 0,
               raised |-> FALSE]
    /\ UNCHANGED <<appVars, threshold, ocrVars, zipf, docVars, text, src_font_name, paraVars, cliVars>>

\* The match the next iteration of the while loop finds, or -1
NextMatch ==
    LET m == build_paragraph_text_map(paragraph) IN
    IF m.full_text = <<>> \/ search_from >= Len(m.full_text) THEN -1
    ELSE Search(m.full_text, sentence, search_from)

\* An iteration that finds a match and leaves search_from where it was
ApplySentenceMatch_not_advancing ==
    /\ pc = "apply_sentence"
    /\ sentence # <<>>
    /\ NextMatch >= 0
    /\ paragraph' = ApplyToOverlaps(paragraph,
                        build_paragraph_text_map(paragraph).mapping,
                        NextMatch, NextMatch + Len(sentence))
    /\ converted' = converted + 1
    /\ UNCHANGED <<pc, threshold, ocrVars, zipf, docVars, appVars, pureVars, mode,
                   input_runs, first_pass, original_runs, run_idx,
                   runs_scanned, english_changed, sentence, search_from,
                   cliVars>>

\* One iteration of the while loop that finds a match
ApplySentenceMatch ==
    /\ pc = "apply_sentence"
    /\ sentence # <<>>
    /\ NextMatch >= 0
    /\ LET m == build_paragraph_text_map(paragraph)
           g_start == NextMatch
           g_end == NextMatch + Len(sentence)
       IN /\ paragraph' = ApplyToOverlaps(paragraph, m.mapping, g_start, g_end)
          /\ search_from' = g_end
    /\ converted' = converted + 1
    /\ UNCHANGED <<pc, threshold, ocrVars, zipf, docVars, appVars, pureVars, mode, input_runs,
                   first_pass,
                   original_runs, run_idx, runs_scanned, english_changed,
                   sentence, cliVars>>

\* The iteration of the while loop that breaks, and the return
ApplySentenceReturn ==
    /\ pc = "apply_sentence"
    /\ sentence # <<>>
    /\ NextMatch < 0
    /\ pc' = "done"
    /\ ret' = [fn |-> "apply_sentence_to_paragraph", val |-> converted,
               raised |-> FALSE]
    /\ UNCHANGED <<appVars, threshold, ocrVars, zipf, docVars, text, src_font_name, paraVars, cliVars>>

NextPara ==
    \/ ProcessRun
    \/ ProcessParagraphReturn
    \/ ApplySentenceEmpty
    \/ ApplySentenceMatch
    \/ ApplySentenceReturn

SpecPara == InitPara /\ [][NextPara]_vars

(***************************************************************************)
(* SpecSentenceLive: apply_sentence_to_paragraph alone, with the fairness  *)
(* of a single thread that runs: a step that can be taken is taken.        *)
(***************************************************************************)
\* The formats of the runs: a plain one and the two protected ones
LiveFormats ==
    {[kind |-> "plain", rPr |-> SutonnyRPr],
     [kind |-> "hyperlink", rPr |-> SutonnyRPr],
     [kind |-> "field", rPr |-> EmptyRPr]}

\* The paragraphs of one or two runs with a text of three characters, "a"
\* or blank, in every division into runs
LiveParagraphs ==
    {p \in Paragraphs :
        /\ Len(Concat([k \in DOMAIN p |-> p[k].text])) = 3
        /\ "\f" \notin Range(Concat([k \in DOMAIN p |-> p[k].text]))
        /\ \A k \in DOMAIN p :
               [kind |-> p[k].kind, rPr |-> p[k].rPr] \in LiveFormats}

InitSentenceLive ==
    /\ InitSentence
    /\ paragraph \in LiveParagraphs
    /\ ~zipf.installed

NextSentence ==
    \/ ApplySentenceEmpty
    \/ ApplySentenceMatch
    \/ ApplySentenceReturn

SpecSentenceLive ==
    /\ InitSentenceLive
    /\ [][NextSentence]_vars
    /\ WF_vars(NextSentence)

(***************************************************************************)
(* SpecTwice: process_paragraph on a paragraph and once more on what it    *)
(* has left.                                                               *)
(***************************************************************************)
\* process_paragraph is called once more on the paragraph it has returned
\* from, with the same threshold and oracle
ProcessParagraphAgain ==
    /\ pc = "done"
    /\ mode = "frequency"
    /\ first_pass = <<>>
    /\ first_pass' = paragraph
    /\ original_runs' = [k \in DOMAIN paragraph |-> paragraph[k].id]
    /\ run_idx' = 1
    /\ runs_scanned' = 0
    /\ english_changed' = 0
    /\ ret' = NoReturn
    /\ pc' = "process_run"
    /\ UNCHANGED <<threshold, ocrVars, zipf, docVars, appVars, cliVars, text,
                   src_font_name, mode, paragraph, input_runs, sentence,
                   search_from, converted>>

NextTwice ==
    \/ ProcessRun
    \/ ProcessParagraphReturn
    \/ ProcessParagraphAgain

\* SpecTwice: process_paragraph on a paragraph, and once more on the result
SpecTwice == InitFrequency /\ [][NextTwice]_vars

(***************************************************************************)
(* SpecCli: main() on a command line, a file system and an oracle drawn    *)
(* from bounded sets.  What opening, processing and saving the document    *)
(* can end in is chosen when the step is taken.                            *)
(***************************************************************************)
Dirs == {<<>>, <<".">>, <<"d">>, <<"d", "..">>}

InPaths ==
    {NoPath} \cup
    {[given |-> TRUE, dir |-> d, stem |-> <<"a">>, ext |-> e] :
         d \in Dirs, e \in {".docx", ""}}

OutPaths ==
    {NoPath} \cup
    {[given |-> TRUE, dir |-> d, stem |-> n, ext |-> e] :
         d \in Dirs, n \in {<<"a">>, <<"b">>}, e \in {".docx", ""}}

HiSentence == <<"H", "i", ".">>

\* Values of --sentences: absent, "", " ,", "Hi."
SentencesArgs == {NoneStr, <<>>, <<" ", ",">>, HiSentence}

\* What reading the --sentences-file can give: its content, or an error
FileContents == {<<>>, HiSentence}
ReadError == <<"OSError">>

OpenErrors == {"PackageNotFoundError"}
ProcessErrors == {"Exception"}
SaveErrors == {"FileNotFoundError", "PermissionError"}

ArgSets ==
    [in_path : InPaths, out_path : OutPaths, dry_run : BOOLEAN,
     gui : BOOLEAN, sentences : SentencesArgs, sentences_file : BOOLEAN]

InitCli ==
    /\ pc = "main"
    /\ args \in ArgSets
    /\ threshold = DefaultThreshold
    /\ zipf \in Oracles({})
    /\ files \in {{}, {Resolve(args.in_path)}}
    /\ ordered = <<>>
    /\ opened = FALSE
    /\ processed = FALSE
    /\ written = {}
    /\ failure = NoFailure
    /\ exit_code = -1
    /\ ret = NoReturn
    /\ PureIdle
    /\ ParaIdle
    /\ DocIdle
    /\ AppIdle
    /\ OcrIdle

\* Truth value of an optional string
Truthy(str) == str # NoneStr /\ str # <<>>

\* if args.sentences or args.sentences_file
SentenceMode == Truthy(args.sentences) \/ args.sentences_file

\* os.path.isfile(path)
isfile(path) == path.given /\ Resolve(path) \in files

\* sys.exit(code), or the return of main() with code 0
Exit(code) ==
    /\ pc' = "exit"
    /\ exit_code' = code

\* main(): --gui hands over to launch_gui
Main_Gui ==
    /\ pc = "main"
    /\ args.gui
    /\ pc' = "gui"
    /\ UNCHANGED <<appVars, threshold, ocrVars, zipf, docVars, pureVars, paraVars, cliVars>>

\* main(): the sentence branch up to the call of apply_sentences_docx
Main_Sentences ==
    /\ pc = "main"
    /\ ~args.gui
    /\ SentenceMode
    /\ \E content \in IF args.sentences_file
                      THEN FileContents \cup {ReadError} ELSE {<<>>} :
          LET from_args == IF Truthy(args.sentences)
                           THEN SentencesOfItems(SplitOn(args.sentences, ","))
                           ELSE <<>>
              sentences == from_args \o extract_sentences(content)
              list == Dedupe(sentences, {})
          IN IF ~args.in_path.given THEN Exit(2) /\ UNCHANGED <<ordered, mode>>
             ELSE IF content = ReadError
                  THEN Exit(2) /\ UNCHANGED <<ordered, mode>>
             ELSE IF list = <<>>
                  THEN Exit(2) /\ ordered' = list /\ UNCHANGED mode
             ELSE /\ pc' = "apply_sentences_docx"
                  /\ ordered' = list
                  /\ mode' = "sentence"
                  /\ UNCHANGED exit_code
    /\ UNCHANGED <<appVars, threshold, ocrVars, zipf, docVars, pureVars, paragraph, input_runs,
                   first_pass,
                   original_runs, run_idx, runs_scanned, english_changed,
                   sentence, search_from, converted,
                   args, files, opened, processed, written, failure>>

\* The gate ignored
oracle_always_there == FALSE

\* "if _zipf_frequency is None" of main()
oracle_missing == ~zipf.installed

\* main(): the frequency branch up to the call of convert_docx
Main_Frequency ==
    /\ pc = "main"
    /\ ~args.gui
    /\ ~SentenceMode
    /\ IF ~args.in_path.given THEN Exit(2) /\ UNCHANGED mode
       ELSE IF oracle_missing THEN Exit(2) /\ UNCHANGED mode
       ELSE /\ pc' = "convert_docx"
            /\ mode' = "frequency"
            /\ UNCHANGED exit_code
    /\ UNCHANGED <<appVars, threshold, ocrVars, zipf, docVars, pureVars, paragraph, input_runs,
                   first_pass,
                   original_runs, run_idx, runs_scanned, english_changed,
                   sentence, search_from, converted,
                   args, files, ordered, opened, processed, written, failure>>

\* The exit status main() gives an exception that leaves convert_docx
convert_docx_exit(error) == IF error = "FileNotFoundError" THEN 2 ELSE 1

\* The exit status main() gives an exception that leaves
\* apply_sentences_docx
apply_sentences_exit(error) == 1

\* The exception leaves the function and main() exits on it
ExitOnError(at, error) ==
    /\ failure' = [at |-> at, error |-> error]
    /\ Exit(IF mode = "frequency" THEN convert_docx_exit(error)
            ELSE apply_sentences_exit(error))

\* convert_docx / apply_sentences_docx: the isfile check and Document(in_path)
OpenDocument ==
    /\ pc \in {"convert_docx", "apply_sentences_docx"}
    /\ IF ~isfile(args.in_path)
       THEN ExitOnError("isfile", "FileNotFoundError") /\ UNCHANGED opened
       ELSE \E error \in OpenErrors \cup {None} :
               IF error # None
               THEN ExitOnError("Document", error) /\ UNCHANGED opened
               ELSE /\ opened' = TRUE
                    /\ pc' = "process"
                    /\ UNCHANGED <<exit_code, failure>>
    /\ UNCHANGED <<appVars, threshold, ocrVars, zipf, docVars, pureVars, paraVars,
                   args, files, ordered, processed, written>>

\* The traversal of the document; convert_docx returns after it on --dry-run
ProcessDocument ==
    /\ pc = "process"
    /\ \E error \in ProcessErrors \cup {None} :
          IF error # None
          THEN ExitOnError("process", error) /\ UNCHANGED processed
          ELSE /\ processed' = TRUE
               /\ UNCHANGED failure
               /\ IF mode = "frequency" /\ args.dry_run
                  THEN Exit(0)
                  ELSE pc' = "save" /\ UNCHANGED exit_code
    /\ UNCHANGED <<appVars, threshold, ocrVars, zipf, docVars, pureVars, paraVars,
                   args, files, ordered, opened, written>>

\* The choice of the output path and doc.save(out_path)
SaveDocument ==
    /\ pc = "save"
    /\ LET out_path ==
               IF mode = "frequency"
               THEN convert_docx_out_path(args.in_path, args.out_path)
               ELSE apply_sentences_out_path(args.in_path, args.out_path)
       IN \E error \in SaveErrors \cup {None} :
             IF error # None
             THEN ExitOnError("save", error) /\ UNCHANGED <<files, written>>
             ELSE /\ files' = files \cup {Resolve(out_path)}
                  /\ written' = written \cup {Resolve(out_path)}
                  /\ UNCHANGED failure
                  /\ Exit(0)
    /\ UNCHANGED <<appVars, threshold, ocrVars, zipf, docVars, pureVars, paraVars,
                   args, ordered, opened, processed>>

NextCli ==
    \/ Main_Gui
    \/ Main_Sentences
    \/ Main_Frequency
    \/ OpenDocument
    \/ ProcessDocument
    \/ SaveDocument

SpecCli == InitCli /\ [][NextCli]_vars

(***************************************************************************)
(* SpecDoc: the traversal of convert_docx and of apply_sentences_docx on   *)
(* an opened document, up to the save.  The documents are drawn from a set *)
(* of shapes, each filled with one kind of paragraph.                      *)
(***************************************************************************)
\* The paragraphs a document is filled with
Fills ==
    {MakeParagraph(<< <<"a", "a">> >>, <<[kind |-> "plain", rPr |-> EmptyRPr]>>),
     MakeParagraph(<< <<"a", "a">> >>,
                   <<[kind |-> "hyperlink", rPr |-> SutonnyRPr]>>),
     MakeParagraph(<< <<"a">>, <<"a">> >>,
                   <<[kind |-> "plain", rPr |-> TimesRPr],
                     [kind |-> "plain", rPr |-> EmptyRPr]>>),
     MakeParagraph(<< <<"a", "a", "a", "a">> >>,
                   <<[kind |-> "plain", rPr |-> SutonnyRPr]>>)}

Para(pid, fill) == [pid |-> pid, runs |-> fill]

Cell(paras, tables) == [paragraphs |-> paras, tables |-> tables]

Part(paras, tables) == [paragraphs |-> paras, tables |-> tables]

\* Two body paragraphs, no table, one section
FlatDocument(f) ==
    [paragraphs |-> <<Para("b1", f), Para("b2", f)>>,
     tables |-> <<>>,
     sections |-> <<[header |-> Part(<<Para("h1", f)>>, <<>>),
                     footer |-> Part(<<Para("f1", f)>>, <<>>)]>>]

\* A body table with tables nested three deep, and header and footer
\* tables with one table nested in them
NestedDocument(f) ==
    LET t3 == <<Cell(<<Para("t3", f)>>, <<>>)>>
        t2 == <<Cell(<<Para("t2", f)>>, <<t3>>)>>
        t1 == <<Cell(<<Para("t1", f)>>, <<t2>>), Cell(<<Para("t1b", f)>>, <<>>)>>
        h2 == <<Cell(<<Para("h2", f)>>, <<>>)>>
        h1 == <<Cell(<<Para("h1", f)>>, <<h2>>)>>
        f2 == <<Cell(<<Para("f2", f)>>, <<>>)>>
        f1 == <<Cell(<<Para("f1", f)>>, <<f2>>)>>
    IN [paragraphs |-> <<Para("b1", f)>>,
        tables |-> <<t1>>,
        sections |-> <<[header |-> Part(<<Para("h0", f)>>, <<h1>>),
                        footer |-> Part(<<Para("f0", f)>>, <<f1>>)]>>]

\* No body paragraph, two body tables, two sections
TwoSectionDocument(f) ==
    [paragraphs |-> <<>>,
     tables |-> << <<Cell(<<Para("t1", f)>>, <<>>)>>,
                   <<Cell(<<Para("u1", f), Para("u2", f)>>, <<>>)>> >>,
     sections |-> <<[header |-> Part(<<Para("h1", f)>>, <<>>),
                     footer |-> Part(<<>>, <<>>)],
                    [header |-> Part(<<>>, <<>>),
                     footer |-> Part(<<Para("g1", f)>>,
                                     << <<Cell(<<Para("g2", f)>>, <<>>)>> >>)]>>]

Documents ==
    UNION {{FlatDocument(f), NestedDocument(f), TwoSectionDocument(f)} :
               f \in Fills}

RECURSIVE TablesParagraphs(_)
RECURSIVE CellsParagraphs(_)
\* Every paragraph in these cells, in the tables nested in them included
CellsParagraphs(cells) ==
    IF cells = <<>> THEN <<>>
    ELSE Head(cells).paragraphs \o TablesParagraphs(Head(cells).tables)
             \o CellsParagraphs(Tail(cells))

TablesParagraphs(tables) ==
    IF tables = <<>> THEN <<>>
    ELSE CellsParagraphs(Head(tables)) \o TablesParagraphs(Tail(tables))

RECURSIVE SectionsParagraphs(_)
SectionsParagraphs(sections) ==
    IF sections = <<>> THEN <<>>
    ELSE Head(sections).header.paragraphs
             \o TablesParagraphs(Head(sections).header.tables)
             \o Head(sections).footer.paragraphs
             \o TablesParagraphs(Head(sections).footer.tables)
             \o SectionsParagraphs(Tail(sections))

\* Every paragraph of the document: body, tables, headers and footers
AllParagraphs(d) ==
    d.paragraphs \o TablesParagraphs(d.tables) \o SectionsParagraphs(d.sections)

\* The words convert_docx can ask the oracle about
DocumentWords(d) ==
    UNION {ParagraphWords(AllParagraphs(d)[k].runs) :
               k \in DOMAIN AllParagraphs(d)}

SentenceLists == {<< <<"a", "a">> >>, << <<"a", "a">>, <<"a">> >>}

InitDoc ==
    /\ pc = "doc_body"
    /\ mode \in {"frequency", "sentence"}
    /\ doc \in Documents
    /\ input_doc = doc
    /\ threshold = DefaultThreshold
    /\ IF mode = "frequency"
       THEN /\ zipf \in {o \in Oracles(DocumentWords(doc)) : o.installed}
            /\ dry_run \in BOOLEAN
            /\ doc_sentences = <<>>
       ELSE /\ zipf \in Oracles({})
            /\ dry_run = FALSE
            /\ doc_sentences \in SentenceLists
    /\ call_log = <<>>
    /\ counts = NoCounts3
    /\ total_converted = 0
    /\ saved = "no"
    /\ paragraph = <<>>
    /\ input_runs = <<>>
    /\ first_pass = <<>>
    /\ original_runs = <<>>
    /\ run_idx = 0
    /\ runs_scanned = 0
    /\ english_changed = 0
    /\ sentence = <<>>
    /\ search_from = 0
    /\ converted = 0
    /\ ret = NoReturn
    /\ PureIdle
    /\ CliIdle
    /\ AppIdle
    /\ OcrIdle

\* An exception inside the traversal leaves the function
DocRaise ==
    /\ pc' = "doc_raised"
    /\ UNCHANGED <<doc, call_log, counts, total_converted>>

Counts(c) ==
    [paragraphs |-> c.paragraphs, runs_scanned |-> c.runs_scanned,
     english_changed |-> c.english_changed]

\* grand_paras, grand_runs, grand_english of convert_docx
GrandTotals(c) ==
    [paragraphs |-> c.body.paragraphs + c.hdr.paragraphs + c.ftr.paragraphs,
     runs_scanned |->
         c.body.runs_scanned + c.hdr.runs_scanned + c.ftr.runs_scanned,
     english_changed |->
         c.body.english_changed + c.hdr.english_changed
             + c.ftr.english_changed]

\* The body paragraphs
DocBody ==
    /\ pc = "doc_body"
    /\ \E error \in ProcessErrors \cup {None} :
          IF error # None THEN DocRaise
          ELSE /\ pc' = "doc_tables"
               /\ IF mode = "frequency"
                  THEN \E r \in {ProcessParagraphs(doc.paragraphs, threshold,
                                    [log |-> call_log,
                                     paragraphs |-> counts.body.paragraphs,
                                     runs_scanned |-> counts.body.runs_scanned,
                                     english_changed |->
                                         counts.body.english_changed])} :
                          /\ doc' = [doc EXCEPT !.paragraphs = r.paragraphs]
                          /\ call_log' = r.c.log
                          /\ counts' = [counts EXCEPT !.body = Counts(r.c)]
                          /\ UNCHANGED total_converted
                  ELSE \E r \in {process_paragraphs(doc.paragraphs,
                                    doc_sentences,
                                    [log |-> call_log,
                                     total_converted |-> total_converted])} :
                          /\ doc' = [doc EXCEPT !.paragraphs = r.paragraphs]
                          /\ call_log' = r.t.log
                          /\ total_converted' = r.t.total_converted
                          /\ UNCHANGED counts
    /\ UNCHANGED <<appVars, threshold, ocrVars, zipf, pureVars, paraVars, cliVars, input_doc,
                   doc_sentences, dry_run, saved>>

\* The tables of the body
DocTables ==
    /\ pc = "doc_tables"
    /\ \E error \in ProcessErrors \cup {None} :
          IF error # None THEN DocRaise
          ELSE /\ pc' = "doc_sections"
               /\ IF mode = "frequency"
                  THEN \E r \in {ProcessTables(doc.tables, threshold,
                                    [log |-> call_log,
                                     paragraphs |-> counts.body.paragraphs,
                                     runs_scanned |-> counts.body.runs_scanned,
                                     english_changed |->
                                         counts.body.english_changed])} :
                          /\ doc' = [doc EXCEPT !.tables = r.tables]
                          /\ call_log' = r.c.log
                          /\ counts' = [counts EXCEPT !.body = Counts(r.c)]
                          /\ UNCHANGED total_converted
                  ELSE \E r \in {OuterTables(doc.tables, doc_sentences,
                                    [log |-> call_log,
                                     total_converted |-> total_converted])} :
                          /\ doc' = [doc EXCEPT !.tables = r.tables]
                          /\ call_log' = r.t.log
                          /\ total_converted' = r.t.total_converted
                          /\ UNCHANGED counts
    /\ UNCHANGED <<appVars, threshold, ocrVars, zipf, pureVars, paraVars, cliVars, input_doc,
                   doc_sentences, dry_run, saved>>

\* The headers and footers of the sections; convert_docx returns after
\* them on a dry run
DocSections ==
    /\ pc = "doc_sections"
    /\ \E error \in ProcessErrors \cup {None} :
          IF error # None THEN DocRaise
          ELSE IF mode = "frequency"
          THEN \E r \in {process_headers_footers(doc, threshold, call_log)} :
                  /\ doc' = [doc EXCEPT !.sections = r.sections]
                  /\ call_log' = r.log
                  /\ counts' = [counts EXCEPT !.hdr = r.hdr, !.ftr = r.ftr]
                  /\ pc' = IF dry_run THEN "doc_returned" ELSE "doc_save"
                  /\ UNCHANGED total_converted
          ELSE \E r \in {SentencesSections(doc.sections, doc_sentences,
                            [log |-> call_log,
                             total_converted |-> total_converted])} :
                  /\ doc' = [doc EXCEPT !.sections = r.sections]
                  /\ call_log' = r.t.log
                  /\ total_converted' = r.t.total_converted
                  /\ pc' = "doc_save"
                  /\ UNCHANGED counts
    /\ UNCHANGED <<appVars, threshold, ocrVars, zipf, pureVars, paraVars, cliVars, input_doc,
                   doc_sentences, dry_run, saved>>

\* doc.save(out_path)
DocSave ==
    /\ pc = "doc_save"
    /\ \E error \in SaveErrors \cup {None} :
          IF error # None
          THEN saved' = "failed" /\ pc' = "doc_raised"
          ELSE saved' = "yes" /\ pc' = "doc_returned"
    /\ UNCHANGED <<appVars, threshold, ocrVars, zipf, pureVars, paraVars, cliVars, doc,
                   input_doc, doc_sentences, dry_run, call_log, counts,
                   total_converted>>

NextDoc ==
    \/ DocBody
    \/ DocTables
    \/ DocSections
    \/ DocSave

SpecDoc == InitDoc /\ [][NextDoc]_vars

(***************************************************************************)
(* SpecOrder: the loops of apply_sentences_docx over the paragraphs and    *)
(* the sentences, run in another order: with the sentences permuted, and   *)
(* with the loop over the sentences outside the loop over the paragraphs.  *)
(***************************************************************************)
\* The formats of the runs: two plain ones and a protected one
OrderFormats ==
    {[kind |-> "plain", rPr |-> SutonnyRPr],
     [kind |-> "plain", rPr |-> TimesRPr],
     [kind |-> "hyperlink", rPr |-> SutonnyRPr]}

\* The paragraphs of one or two runs whose text is "aaa" or "aa ", in
\* every division into runs
OrderParagraphs ==
    {p \in Paragraphs :
        /\ Concat([k \in DOMAIN p |-> p[k].text])
               \in {<<"a", "a", "a">>, <<"a", "a", " ">>}
        /\ \A k \in DOMAIN p :
               [kind |-> p[k].kind, rPr |-> p[k].rPr] \in OrderFormats}

\* The paragraph behind it: a plain run "aa", or "a" and "a" in two runs
OrderFills ==
    {f \in Fills : Concat([k \in DOMAIN f |-> f[k].text]) = <<"a", "a">>
                       /\ f[1].kind = "plain"}

\* The lists of sentences, as main() passes them: without repetition
OrderSentenceLists ==
    {<< <<"a", "a">>, <<"a">> >>,
     << <<"a">>, <<"a", " ">>, <<"a", "a">> >>}

\* The arrangements of a list
Permuted(list) ==
    {[i \in DOMAIN list |-> list[f[i]]] :
        f \in {g \in [DOMAIN list -> DOMAIN list] :
                  \A i, j \in DOMAIN list : g[i] = g[j] => i = j}}

RECURSIVE SentenceMajor(_, _, _)
\* "for s in sentences: for p in paragraphs:
\*      total_converted += apply_sentence_to_paragraph(p, s)"
SentenceMajor(paras, sentences, t) ==
    IF sentences = <<>> THEN [paragraphs |-> paras, t |-> t]
    ELSE TheOne({SentenceMajor(r.paragraphs, Tail(sentences), r.t) :
             r \in {process_paragraphs(paras, <<Head(sentences)>>, t)}})

InitOrder ==
    /\ pc = "order_start"
    /\ \E p \in OrderParagraphs, f \in OrderFills :
          doc = [paragraphs |-> <<Para("b1", p), Para("b2", f)>>,
                 tables |-> <<>>, sections |-> <<>>]
    /\ input_doc = doc
    /\ threshold = DefaultThreshold
    /\ zipf \in Oracles({})
    /\ dry_run = FALSE
    /\ doc_sentences \in OrderSentenceLists
    /\ call_log = <<>>
    /\ counts = NoCounts3
    /\ total_converted = 0
    /\ saved = "no"
    /\ ParaIdle
    /\ ret = NoReturn
    /\ PureIdle
    /\ CliIdle
    /\ AppIdle
    /\ OcrIdle

\* What the loops leave: the paragraphs, the calls and the total
OrderResult(r) ==
    /\ doc' = [doc EXCEPT !.paragraphs = r.paragraphs]
    /\ call_log' = r.t.log
    /\ total_converted' = r.t.total_converted
    /\ pc' = "order_done"
    /\ UNCHANGED <<appVars, threshold, ocrVars, zipf, pureVars, paraVars, cliVars,
                   input_doc, doc_sentences, dry_run, counts, saved>>

\* The loops as process_paragraphs has them, the sentences in some order
ApplyParagraphMajor ==
    /\ pc = "order_start"
    /\ \E perm \in Permuted(doc_sentences) :
          OrderResult(process_paragraphs(doc.paragraphs, perm,
                          [log |-> <<>>, total_converted |-> 0]))

\* The loop over the sentences outside, the sentences in some order
ApplySentenceMajor ==
    /\ pc = "order_start"
    /\ \E perm \in Permuted(doc_sentences) :
          OrderResult(SentenceMajor(doc.paragraphs, perm,
                          [log |-> <<>>, total_converted |-> 0]))

NextOrder ==
    \/ ApplyParagraphMajor
    \/ ApplySentenceMajor

SpecOrder == InitOrder /\ [][NextOrder]_vars

(***************************************************************************)
(* SpecCliDoc: main() and the two document functions side by side, for the *)
(* properties that speak of both.                                          *)
(***************************************************************************)
InitCliDoc == InitCli \/ InitDoc

NextCliDoc == NextCli \/ NextDoc

SpecCliDoc == InitCliDoc /\ [][NextCliDoc]_vars

(***************************************************************************)
(* SpecApp: the file list of the text combiner (Text_file_combiner.py).    *)
(* A path is a directory, as components below the working directory or as  *)
(* absolute components once resolved, and a file name as characters.  The  *)
(* state is the file list, its index and the list box; the status line and *)
(* last_dir, which only the dialogs read, are left out.                    *)
(***************************************************************************)
TxtExt == <<".", "t", "x", "t">>

\* A path relative to the working directory, and an absolute one
PathOf(dir, name) == [absolute |-> FALSE, dir |-> dir, name |-> name]

AbsPath(dir, name) == [absolute |-> TRUE, dir |-> dir, name |-> name]

\* The file system: the entries of the working directory and of its
\* directory d; the name of a directory is its one component.  l.txt is a symbolic link to a.txt, x.txt a symbolic link
\* to itself.  A.txt is there where names are case-sensitive.
Listing(dir) ==
    IF dir = cwd
    THEN <<[name |-> <<"a">> \o TxtExt, kind |-> "file"],
           [name |-> <<"l">> \o TxtExt, kind |-> "link"],
           [name |-> <<"x">> \o TxtExt, kind |-> "loop"],
           [name |-> <<"n", ".", "m", "d">>, kind |-> "file"],
           [name |-> <<"d">>, kind |-> "dir"]>>
         \o (IF platform.os_name = "nt" THEN <<>>
             ELSE <<[name |-> <<"A">> \o TxtExt, kind |-> "file"]>>)
    ELSE IF dir = cwd \o <<"d">>
    THEN <<[name |-> <<"a", ".", "T", "X", "T">>, kind |-> "file"]>>
    ELSE IF dir = <<>> THEN <<[name |-> cwd, kind |-> "dir"]>>
    ELSE <<>>

LinkTarget == AbsPath(cwd, <<"a">> \o TxtExt)

\* Names are compared without case on Windows
SameName(a, b) ==
    IF platform.os_name = "nt" THEN LowerStr(a) = LowerStr(b) ELSE a = b

\* The entry of the file system an absolute path names
Lookup(abs) ==
    TheOne({IF hits = <<>> THEN [name |-> abs.name, kind |-> "missing"]
            ELSE hits[1] :
        hits \in {SelectSeq(Listing(abs.dir),
                            LAMBDA e : SameName(e.name, abs.name))}})

\* The path made absolute, without "." and ".."
Absolute(p) ==
    AbsPath(NormDir(IF p.absolute THEN p.dir ELSE cwd \o p.dir, <<>>), p.name)

\* What resolve() gives for an absolute path that names this entry
ResolvedAs(abs, entry) ==
    CASE entry.kind = "loop" ->
             [raised |-> platform.loop_raises, path |-> abs]
      [] entry.kind = "link" -> [raised |-> FALSE, path |-> LinkTarget]
      [] OTHER -> [raised |-> FALSE, path |-> AbsPath(abs.dir, entry.name)]

\* Path.resolve(): absolute, without "." and "..", symbolic links followed,
\* the name spelled as the directory has it
path_resolve(p) ==
    TheOne({TheOne({ResolvedAs(abs, entry) : entry \in {Lookup(abs)}}) :
        abs \in {Absolute(p)}})

\* The characters of a path component
Chars(comp) == IF comp = "home" THEN <<"h", "o", "m", "e">> ELSE <<comp>>

RECURSIVE DirStr(_)
DirStr(dir) ==
    IF dir = <<>> THEN <<>>
    ELSE <<"/">> \o Chars(Head(dir)) \o DirStr(Tail(dir))

\* str(p) of an absolute path
PathStr(p) == DirStr(p.dir) \o <<"/">> \o p.name

\* TextCombinerApp._index_key
index_key(p) ==
    IF platform.os_name = "nt" THEN LowerStr(PathStr(path_resolve(p).path))
    ELSE PathStr(path_resolve(p).path)

\* The characters in the order of their code points
CodePoints == <<".", "/">> \o UpperLetters \o LowerLetters

OrdOf ==
    [c \in Range(CodePoints) |->
        CHOOSE i \in DOMAIN CodePoints : CodePoints[i] = c]

Ord(c) == OrdOf[c]

RECURSIVE StrLess(_, _)
\* s < t on strings
StrLess(s, t) ==
    IF t = <<>> THEN FALSE
    ELSE IF s = <<>> THEN TRUE
    ELSE IF Head(s) = Head(t) THEN StrLess(Tail(s), Tail(t))
    ELSE Ord(Head(s)) < Ord(Head(t))

\* key=lambda p: str(p).lower()
SortKey(p) == LowerStr(PathStr(p))

RECURSIVE InsertSorted(_, _)
\* The keyed element goes after the elements that do not sort after it
InsertSorted(sorted, e) ==
    IF sorted = <<>> THEN <<e>>
    ELSE IF StrLess(e.key, Head(sorted).key) THEN <<e>> \o sorted
    ELSE <<Head(sorted)>> \o InsertSorted(Tail(sorted), e)

RECURSIVE SortedKeyed(_)
SortedKeyed(keyed) ==
    IF keyed = <<>> THEN <<>>
    ELSE InsertSorted(SortedKeyed(SubSeq(keyed, 1, Len(keyed) - 1)),
                      keyed[Len(keyed)])

\* list.sort(key=...), which is stable and computes each key once
Sorted(list) ==
    TheOne({[k \in DOMAIN sorted |-> sorted[k].path] :
        sorted \in {SortedKeyed([k \in DOMAIN list |->
                        [key |-> SortKey(list[k]), path |-> list[k]]])}})

\* name.lower().endswith(".txt")
IsTxt(name) ==
    /\ Len(name) >= Len(TxtExt)
    /\ SubSeq(LowerStr(name), Len(name) - Len(TxtExt) + 1, Len(name)) = TxtExt

Reverse(s) == [i \in DOMAIN s |-> s[Len(s) + 1 - i]]

\* The entries of a directory in the order the operating system gives them
Entries(dir, order) ==
    IF order = "reversed" THEN Reverse(Listing(dir)) ELSE Listing(dir)

\* The sub-directories os.walk goes down into, the directory itself first
Walk(folder) ==
    TheOne({<<folder>> \o [k \in DOMAIN subs |-> folder \o subs[k].name] :
        subs \in {SelectSeq(Listing(folder), LAMBDA e : e.kind = "dir")}})

\* The .txt entries scan_txt_files resolves in one directory: every entry
\* that is no directory when walking, the regular files (symbolic links to
\* them included) otherwise
TxtEntries(dir, recursive, order) ==
    SelectSeq(Entries(dir, order),
              LAMBDA e : /\ IsTxt(e.name)
                         /\ IF recursive THEN e.kind # "dir"
                            ELSE e.kind \in {"file", "link"})

\* (root_path / name).resolve() for each of the entries
ResolveEntries(dir, entries) ==
    [j \in DOMAIN entries |-> path_resolve(AbsPath(dir, entries[j].name))]

\* The directories scan_txt_files reads below the resolved folder
ScannedDirs(root, recursive) ==
    IF Lookup(root).kind # "dir" THEN <<>>
    ELSE IF recursive THEN Walk(root.dir \o root.name)
    ELSE <<root.dir \o root.name>>

\* scan_txt_files(folder, recursive): the sorted list, or the exception of
\* a resolve() that raises
scan_txt_files(folder, recursive, order) ==
    TheOne({[raised |-> \E k \in DOMAIN found : found[k].raised,
             results |-> Sorted([k \in DOMAIN found |-> found[k].path])] :
        found \in {Concat([k \in DOMAIN dirs |->
                       ResolveEntries(dirs[k],
                           TxtEntries(dirs[k], recursive, order))]) :
                      dirs \in {ScannedDirs(path_resolve(folder).path,
                                            recursive)}}})

RECURSIVE add_files_without_index(_, _)
\* The loop without its look into files_index
add_files_without_index(paths, s) ==
    IF paths = <<>> THEN s
    ELSE TheOne({
            IF rp.raised THEN add_files_without_index(Tail(paths), s)
            ELSE add_files_without_index(Tail(paths),
                     [files |-> Append(s.files, rp.path),
                      files_index |-> s.files_index \cup {index_key(rp.path)},
                      added |-> s.added + 1]) :
         rp \in {path_resolve(Head(paths))}})

RECURSIVE add_files(_, _)
\* TextCombinerApp._add_files: the loop over the paths
add_files(paths, s) ==
    IF paths = <<>> THEN s
    ELSE TheOne({
            IF rp.raised THEN add_files(Tail(paths), s)
            ELSE TheOne({
                    IF key \in s.files_index THEN add_files(Tail(paths), s)
                    ELSE add_files(Tail(paths),
                             [files |-> Append(s.files, rp.path),
                              files_index |-> s.files_index \cup {key},
                              added |-> s.added + 1]) :
                 key \in {index_key(rp.path)}}) :
         rp \in {path_resolve(Head(paths))}})

\* TextCombinerApp._refresh_listbox: the lines of the list, nothing selected
refresh_listbox(list) ==
    [items |-> [k \in DOMAIN list |-> PathStr(list[k])], selection |-> {}]

RemoveAt(s, idx) == SubSeq(s, 1, idx) \o SubSeq(s, idx + 2, Len(s))

RECURSIVE remove_selected(_, _)
\* on_remove_selected: the loop "for idx in reversed(sel)"
remove_selected(sel, s) ==
    IF sel = {} THEN s
    ELSE TheOne({remove_selected(sel \ {idx},
                     [files |-> RemoveAt(s.files, idx),
                      files_index |->
                          s.files_index \ {index_key(s.files[idx + 1])},
                      items |-> RemoveAt(s.items, idx)]) :
             idx \in {CHOOSE i \in sel : \A j \in sel : j <= i}})

Swap(s, i, j) == [s EXCEPT ![i + 1] = s[j + 1], ![j + 1] = s[i + 1]]

RECURSIVE move_items(_, _, _)
\* on_move: the loop over the indexes
move_items(indexes, delta, items) ==
    IF indexes = <<>> THEN items
    ELSE LET idx == Head(indexes)
             new_idx == idx + delta
         IN IF new_idx < 0 \/ new_idx >= Len(items)
            THEN move_items(Tail(indexes), delta, items)
            ELSE move_items(Tail(indexes), delta, Swap(items, idx, new_idx))

RECURSIVE Ascending(_)
\* list(curselection()): the selected indices in increasing order
Ascending(sel) ==
    IF sel = {} THEN <<>>
    ELSE LET least == CHOOSE i \in sel : \A j \in sel : i <= j
         IN <<least>> \o Ascending(sel \ {least})

\* The paths the file dialog can hand over
PathA == PathOf(<<>>, <<"a">> \o TxtExt)
PathUpperA == PathOf(<<>>, <<"A">> \o TxtExt)
PathAlias == PathOf(<<"d", "..">>, <<"a">> \o TxtExt)
PathLink == PathOf(<<>>, <<"l">> \o TxtExt)
PathLoop == PathOf(<<>>, <<"x">> \o TxtExt)
PathInD == PathOf(<<"d">>, <<"a", ".", "T", "X", "T">>)

\* What askopenfilenames can return
FileSelections ==
    {<<>>, <<PathA>>, <<PathUpperA, PathA>>, <<PathInD, PathAlias>>,
     <<PathLoop, PathLink>>, <<PathInD>>}

\* What askdirectory can return: nothing, the working directory, d, a
\* directory that is not there
NoFolder == PathOf(<<>>, <<>>)
FolderSelections ==
    {NoFolder, PathOf(<<"..">>, cwd), PathOf(<<>>, <<"d">>),
     PathOf(<<>>, <<"q">>)}

Platforms == [os_name : {"posix", "nt"}, loop_raises : BOOLEAN]

\* The widgets _toggle_controls sets the state of
Widgets ==
    {"btn_add_files", "btn_add_folder", "chk_recursive", "btn_remove",
     "btn_clear", "btn_up", "btn_down", "btn_output", "chk_headers",
     "cmb_encoding", "entry_separator", "btn_combine"}

\* TextCombinerApp._refresh_buttons
refresh_buttons(c, list, output) ==
    [c EXCEPT !["btn_combine"] = list # <<>> /\ output # <<>>,
              !["btn_remove"] = list # <<>>,
              !["btn_clear"] = list # <<>>,
              !["btn_up"] = list # <<>>,
              !["btn_down"] = list # <<>>]

\* TextCombinerApp._toggle_controls
toggle_controls(c, enabled) == [w \in Widgets |-> enabled]

\* separator_var as __init__ sets it: a backslash and "n"
DefaultSeparator == <<"\\", "n">>

\* The state __init__ leaves
Constructed ==
    /\ self_files = <<>>
    /\ files_index = {}
    /\ lst_files = NoListbox
    /\ event = NoEvent
    /\ controls = refresh_buttons([w \in Widgets |-> TRUE], <<>>, <<>>)
    /\ output_path_var = <<>>
    /\ settings = [add_headers |-> FALSE, separator |-> DefaultSeparator]
    /\ worker = NoWorker
    /\ out_f = <<>>

InitApp ==
    /\ pc = "mainloop"
    /\ platform \in Platforms
    /\ Constructed
    /\ OcrIdle
    /\ threshold = DefaultThreshold
    /\ zipf \in {o \in Oracles({}) : ~o.installed}
    /\ ret = NoReturn
    /\ PureIdle
    /\ ParaIdle
    /\ CliIdle
    /\ DocIdle

\* _add_files with its refresh of the list box
AddFiles(paths, handler) ==
    \E r \in {add_files(paths, [files |-> self_files,
                                files_index |-> files_index, added |-> 0])} :
        /\ self_files' = r.files
        /\ files_index' = r.files_index
        /\ lst_files' = IF r.added > 0 THEN refresh_listbox(r.files)
                        ELSE lst_files
        /\ event' = [handler |-> handler, paths |-> paths]
        /\ controls' = refresh_buttons(controls, r.files, output_path_var)
        /\ UNCHANGED <<platform, output_path_var, settings, worker, out_f>>

\* on_add_files, the dialog returning one of these selections
AddFilesDialog(selections) ==
    /\ pc = "mainloop"
    /\ \E filenames \in selections :
          IF filenames = <<>> THEN UNCHANGED appVars
          ELSE AddFiles(filenames, "on_add_files")
    /\ UNCHANGED <<pc, threshold, ocrVars, zipf, pureVars, paraVars, cliVars, docVars>>

\* on_add_files
OnAddFiles == AddFilesDialog(FileSelections)

\* on_add_folder, the dialog returning one of these folders; an exception
\* of scan_txt_files ends the handler
AddFolderDialog(folders) ==
    /\ pc = "mainloop"
    /\ \E foldername \in folders, recursive \in BOOLEAN,
          order \in {"listed", "reversed"} :
          IF foldername = NoFolder THEN UNCHANGED appVars
          ELSE \E found \in {scan_txt_files(foldername, recursive, order)} :
                  IF found.raised THEN UNCHANGED appVars
                  ELSE AddFiles(found.results, "on_add_folder")
    /\ UNCHANGED <<pc, threshold, ocrVars, zipf, pureVars, paraVars, cliVars, docVars>>

\* on_add_folder
OnAddFolder == AddFolderDialog(FolderSelections)

\* The user selects lines of the list box
Select ==
    /\ pc = "mainloop"
    /\ \E sel \in SUBSET (0..(Len(lst_files.items) - 1)) :
          lst_files' = [lst_files EXCEPT !.selection = sel]
    /\ UNCHANGED <<pc, threshold, ocrVars, zipf, pureVars, paraVars, cliVars, docVars,
                   platform, self_files, files_index, event, controls,
                   output_path_var, settings, worker, out_f>>

\* on_remove_selected
OnRemoveSelected ==
    /\ pc = "mainloop"
    /\ IF lst_files.selection = {} THEN UNCHANGED appVars
       ELSE \E r \in {remove_selected(lst_files.selection,
                         [files |-> self_files, files_index |-> files_index,
                          items |-> lst_files.items])} :
               /\ self_files' = r.files
               /\ files_index' = r.files_index
               /\ lst_files' = [items |-> r.items, selection |-> {}]
               /\ event' = [handler |-> "on_remove_selected", paths |-> <<>>]
               /\ controls' = refresh_buttons(controls, r.files,
                                               output_path_var)
               /\ UNCHANGED <<platform, output_path_var, settings, worker,
                              out_f>>
    /\ UNCHANGED <<pc, threshold, ocrVars, zipf, pureVars, paraVars, cliVars, docVars>>

\* on_clear_all
OnClearAll ==
    /\ pc = "mainloop"
    /\ IF self_files = <<>> THEN UNCHANGED appVars
       ELSE /\ self_files' = <<>>
            /\ files_index' = {}
            /\ lst_files' = refresh_listbox(<<>>)
            /\ event' = [handler |-> "on_clear_all", paths |-> <<>>]
            /\ controls' = refresh_buttons(controls, <<>>, output_path_var)
            /\ UNCHANGED <<platform, output_path_var, settings, worker,
                           out_f>>
    /\ UNCHANGED <<pc, threshold, ocrVars, zipf, pureVars, paraVars, cliVars, docVars>>

\* on_move(delta)
Move(delta) ==
    /\ pc = "mainloop"
    /\ IF self_files = <<>> \/ lst_files.selection = {}
       THEN UNCHANGED appVars
       ELSE \E sel \in {Ascending(lst_files.selection)} :
               /\ self_files' =
                      move_items(IF delta > 0 THEN sel ELSE Reverse(sel),
                                 delta, self_files)
               /\ lst_files' =
                      [refresh_listbox(self_files') EXCEPT !.selection =
                          {i + delta : i \in lst_files.selection}
                              \cap (0..(Len(self_files) - 1))]
               /\ event' = [handler |-> "on_move", paths |-> <<>>]
               /\ UNCHANGED <<platform, files_index, controls,
                              output_path_var, settings, worker, out_f>>
    /\ UNCHANGED <<pc, threshold, ocrVars, zipf, pureVars, paraVars, cliVars, docVars>>

\* on_move(-1) or on_move(1)
OnMove == \E delta \in {-1, 1} : Move(delta)

NextApp ==
    \/ OnAddFiles
    \/ OnAddFolder
    \/ Select
    \/ OnRemoveSelected
    \/ OnClearAll
    \/ OnMove

SpecApp == InitApp /\ [][NextApp]_vars

(***************************************************************************)
(* SpecCombine: the text combiner with its Combine button.  The handlers   *)
(* run in the main thread, one at a time, when the button that calls them  *)
(* is in state NORMAL or when the key bound to them is pressed; the thread *)
(* started by on_combine runs combine_files on self.files, the list object *)
(* of the application, one file per step, between the handlers.            *)
(***************************************************************************)
RECURSIVE unescape_separators(_)
unescape_separators(t) ==
    IF t = <<>> THEN <<>>
    ELSE IF Head(t) = "\\" /\ Len(t) > 1 /\ t[2] \in {"n", "r", "t", "\\"}
         THEN <<CASE t[2] = "n" -> "\n"
                  [] t[2] = "r" -> "\r"
                  [] t[2] = "t" -> "\t"
                  [] OTHER -> "\\">>
              \o unescape_separators(SubSeq(t, 3, Len(t)))
    ELSE <<Head(t)>> \o unescape_separators(Tail(t))

\* What the files hold: the first letter of the name, and in the directory
\* d a line that ends in carriage return and line feed
RawContent(p) ==
    IF p.dir = cwd THEN <<Head(p.name)>> ELSE <<"d", "\r", "\n">>

RECURSIVE NormalizeNewlines(_)
\* text.replace("\r\n", "\n").replace("\r", "\n")
NormalizeNewlines(t) ==
    IF t = <<>> THEN <<>>
    ELSE IF Head(t) = "\r" /\ Len(t) > 1 /\ t[2] = "\n"
         THEN <<"\n">> \o NormalizeNewlines(SubSeq(t, 3, Len(t)))
    ELSE IF Head(t) = "\r" THEN <<"\n">> \o NormalizeNewlines(Tail(t))
    ELSE <<Head(t)>> \o NormalizeNewlines(Tail(t))

\* _read_file_text of a file that can be read
read_file_text(p) == NormalizeNewlines(RawContent(p))

\* f"=== {p.name} ===\n"
Header(p) ==
    <<"=", "=", "=", " ">> \o p.name \o <<" ", "=", "=", "=", "\n">>

\* p.exists() and p.is_file()
IsFile(p) == Lookup(p).kind = "file"

\* What one pass of the loop of combine_files writes for a file it reads,
\* the list having n entries when the pass ends
Written(p, idx, n, add_headers, separator) ==
    (IF add_headers THEN Header(p) ELSE <<>>)
        \o read_file_text(p)
        \o (IF idx # n - 1 /\ separator # <<>> THEN separator ELSE <<>>)

\* What askopenfilenames and askdirectory return here
CombineSelections == {<<>>, <<PathA>>, <<PathInD, PathA>>}
CombineFolders == {NoFolder, PathOf(<<>>, <<"d">>)}

\* What asksaveasfilename can return
OutputSelections == {<<>>, <<"o", ".", "t", "x", "t">>}

InitCombine ==
    /\ pc = "mainloop"
    /\ platform = [os_name |-> "posix", loop_raises |-> TRUE]
    /\ Constructed
    /\ OcrIdle
    /\ threshold = DefaultThreshold
    /\ zipf \in {o \in Oracles({}) : ~o.installed}
    /\ ret = NoReturn
    /\ PureIdle
    /\ ParaIdle
    /\ CliIdle
    /\ DocIdle

OtherVars == <<pc, threshold, zipf, pureVars, paraVars, cliVars, docVars,
               ocrVars>>

\* The buttons call their handlers when they are in state NORMAL
ClickAddFiles ==
    controls["btn_add_files"] /\ AddFilesDialog(CombineSelections)

ClickAddFolder ==
    controls["btn_add_folder"] /\ AddFolderDialog(CombineFolders)

ClickRemove == controls["btn_remove"] /\ OnRemoveSelected

ClickClear == controls["btn_clear"] /\ OnClearAll

ClickUp == controls["btn_up"] /\ Move(-1)

ClickDown == controls["btn_down"] /\ Move(1)

\* The keys bound to the window by _bind_events
KeyDelete == OnRemoveSelected

KeyControlUp == Move(-1)

KeyControlDown == Move(1)

\* on_choose_output; writing output_path_var calls _refresh_buttons
OnChooseOutput ==
    /\ pc = "mainloop"
    /\ \E filename \in OutputSelections :
          IF filename = <<>> THEN UNCHANGED appVars
          ELSE /\ output_path_var' = filename
               /\ controls' = refresh_buttons(controls, self_files, filename)
               /\ UNCHANGED <<platform, self_files, files_index, lst_files,
                              event, settings, worker, out_f>>
    /\ UNCHANGED OtherVars

ClickChooseOutput == controls["btn_output"] /\ OnChooseOutput

\* The check box of add_headers_var; writing the variable calls
\* _refresh_buttons
ClickHeaders ==
    /\ pc = "mainloop"
    /\ controls["chk_headers"]
    /\ settings' = [settings EXCEPT !.add_headers = ~@]
    /\ controls' = refresh_buttons(controls, self_files, output_path_var)
    /\ UNCHANGED <<platform, self_files, files_index, lst_files, event,
                   output_path_var, worker, out_f>>
    /\ UNCHANGED OtherVars

\* The entry of separator_var is edited
EditSeparator ==
    /\ pc = "mainloop"
    /\ controls["entry_separator"]
    /\ \E sep \in {<<>>, DefaultSeparator} :
          settings' = [settings EXCEPT !.separator = sep]
    /\ controls' = refresh_buttons(controls, self_files, output_path_var)
    /\ UNCHANGED <<platform, self_files, files_index, lst_files, event,
                   output_path_var, worker, out_f>>
    /\ UNCHANGED OtherVars

\* on_combine: the controls are disabled and the thread is started
OnCombine ==
    /\ pc = "mainloop"
    /\ IF self_files = <<>> \/ output_path_var = <<>> THEN UNCHANGED appVars
       ELSE /\ controls' = toggle_controls(controls, FALSE)
            /\ worker' = [state |-> "running", idx |-> 0,
                          add_headers |-> settings.add_headers,
                          separator |-> unescape_separators(settings.separator),
                          count |-> 0, skipped |-> <<>>, sources |-> <<>>]
            /\ out_f' = <<>>
            /\ UNCHANGED <<platform, self_files, files_index, lst_files,
                           event, output_path_var, settings>>
    /\ UNCHANGED OtherVars

ClickCombine == controls["btn_combine"] /\ OnCombine

\* One pass of "for idx, p in enumerate(files)" in the thread: the file is
\* skipped when it is not there or cannot be read, and written otherwise
WorkerStep ==
    /\ worker.state = "running"
    /\ worker.idx < Len(self_files)
    /\ \E p \in {self_files[worker.idx + 1]}, readable \in BOOLEAN :
          IF ~IsFile(p) \/ ~readable
          THEN /\ worker' = [worker EXCEPT !.idx = @ + 1,
                                           !.skipped = Append(@, p)]
               /\ UNCHANGED out_f
          ELSE /\ worker' = [worker EXCEPT !.idx = @ + 1,
                                           !.count = @ + 1,
                                           !.sources = Append(@, p)]
               /\ out_f' = out_f \o Written(p, worker.idx, Len(self_files),
                                            worker.add_headers,
                                            worker.separator)
    /\ UNCHANGED <<platform, self_files, files_index, lst_files, event,
                   controls, output_path_var, settings>>
    /\ UNCHANGED OtherVars

\* The loop is over: combine_files returns and the thread asks the main
\* thread for _combine_complete
WorkerReturn ==
    /\ worker.state = "running"
    /\ worker.idx >= Len(self_files)
    /\ worker' = [worker EXCEPT !.state = "returned"]
    /\ UNCHANGED <<platform, self_files, files_index, lst_files, event,
                   controls, output_path_var, settings, out_f>>
    /\ UNCHANGED OtherVars

\* The output file cannot be made or opened: combine_files raises and the
\* thread asks the main thread for _combine_failed
WorkerRaise ==
    /\ worker.state = "running"
    /\ worker.idx = 0
    /\ worker' = [worker EXCEPT !.state = "raised"]
    /\ UNCHANGED <<platform, self_files, files_index, lst_files, event,
                   controls, output_path_var, settings, out_f>>
    /\ UNCHANGED OtherVars

\* _combine_complete and _combine_failed, in the main thread
CombineOver(state) ==
    /\ worker.state = state
    /\ controls' = refresh_buttons(toggle_controls(controls, TRUE),
                                   self_files, output_path_var)
    /\ worker' = NoWorker
    /\ UNCHANGED <<platform, self_files, files_index, lst_files, event,
                   output_path_var, settings, out_f>>
    /\ UNCHANGED OtherVars

CombineComplete == CombineOver("returned")

CombineFailed == CombineOver("raised")

NextCombine ==
    \/ ClickAddFiles
    \/ ClickAddFolder
    \/ Select
    \/ ClickRemove
    \/ ClickClear
    \/ ClickUp
    \/ ClickDown
    \/ KeyDelete
    \/ KeyControlUp
    \/ KeyControlDown
    \/ ClickChooseOutput
    \/ ClickHeaders
    \/ EditSeparator
    \/ ClickCombine
    \/ WorkerStep
    \/ WorkerReturn
    \/ WorkerRaise
    \/ CombineComplete
    \/ CombineFailed

SpecCombine == InitCombine /\ [][NextCombine]_vars

(***************************************************************************)
(* SpecCombineFiles: combine_files called on a list of paths, with nothing *)
(* else running.                                                           *)
(***************************************************************************)
\* The paths of the lists: two files and a symbolic link that leads
\* nowhere, as _add_files has resolved them
ListedPaths ==
    {AbsPath(cwd, <<"a">> \o TxtExt),
     AbsPath(cwd \o <<"d">>, <<"a", ".", "T", "X", "T">>),
     AbsPath(cwd, <<"x">> \o TxtExt)}

MaxFiles == 3

\* The lists of at most MaxFiles paths without repetition
FileLists ==
    UNION {{l \in [1..n -> ListedPaths] :
                \A i, j \in 1..n : l[i] = l[j] => i = j} : n \in 0..MaxFiles}

Separators == {<<>>, <<"\n">>, <<"-", "-">>}

InitCombineFiles ==
    /\ pc = "combine_files"
    /\ platform = [os_name |-> "posix", loop_raises |-> FALSE]
    /\ self_files \in FileLists
    /\ files_index = {}
    /\ lst_files = NoListbox
    /\ event = NoEvent
    /\ controls = toggle_controls(<<>>, FALSE)
    /\ OcrIdle
    /\ output_path_var = <<"o", ".", "t", "x", "t">>
    /\ settings = NoSettings
    /\ \E add_headers \in BOOLEAN, separator \in Separators :
          worker = [state |-> "running", idx |-> 0,
                    add_headers |-> add_headers, separator |-> separator,
                    count |-> 0, skipped |-> <<>>, sources |-> <<>>]
    /\ out_f = <<>>
    /\ threshold = DefaultThreshold
    /\ zipf \in {o \in Oracles({}) : ~o.installed}
    /\ ret = NoReturn
    /\ PureIdle
    /\ ParaIdle
    /\ CliIdle
    /\ DocIdle

NextCombineFiles ==
    \/ WorkerStep
    \/ WorkerReturn
    \/ WorkerRaise

SpecCombineFiles == InitCombineFiles /\ [][NextCombineFiles]_vars

(***************************************************************************)
(* The OCR window (bangla_ocr_gui.py, SpecOcr): the handlers of the main   *)
(* thread, and the thread started by start_processing, which runs          *)
(* process_images one image at a time while the window stays responsive.   *)
(***************************************************************************)

\* The empty string of a path-valued tk.StringVar
NoImage == [dir |-> "", base |-> "", ext |-> ""]

\* The image files of the file system
Images == {[dir |-> "in", base |-> b, ext |-> ".png"] : b \in {"a", "b"}}

\* What askopenfilenames can return
ImageSelections ==
    {<<>>} \cup {<<f>> : f \in Images}
           \cup {s \in {<<f, g>> : f \in Images, g \in Images} : s[1] # s[2]}

\* The folders askdirectory can return
ImageFolders == {"in"}
OutputFolders == {"out1", "out2"}

\* Path(folder_path).glob(ext) over the six extensions
Glob(folder_path) == {f \in Images : f.dir = folder_path}

\* get_input_files collects the three sources and returns list(set(files)):
\* the files without repeats, in an order the set chooses
InputFileSet ==
    (IF single_image_var # NoImage THEN {single_image_var} ELSE {})
        \cup Range(multiple_images_var)
        \cup (IF folder_var # "" THEN Glob(folder_var) ELSE {})

get_input_files ==
    {list \in UNION {[1..n -> InputFileSet] : n \in {Cardinality(InputFileSet)}} :
        Range(list) = InputFileSet}

\* os.path.join(folder, name): with an empty folder the result is the bare
\* name, a path relative to the working directory
os_path_join(folder, name) == [dir |-> folder, name |-> name]

\* process_single_image: os.path.join(self.output_var.get(), f"{base_name}.txt"),
\* output_var being read when the image has been recognised
output_file(image_path) == os_path_join(output_var, <<image_path.base, ".txt">>)

NonOcrVars == <<pc, threshold, zipf, pureVars, paraVars, cliVars, docVars, appVars>>

\* __init__: load_settings puts the saved output folder in output_var;
\* create_widgets builds the enabled widgets when Tesseract was found
InitOcr ==
    /\ pc = "mainloop"
    /\ platform = NoPlatform
    /\ AppIdle
    /\ threshold = DefaultThreshold
    /\ zipf \in {o \in Oracles({}) : ~o.installed}
    /\ ret = NoReturn
    /\ PureIdle
    /\ ParaIdle
    /\ CliIdle
    /\ DocIdle
    /\ tesseract_available \in BOOLEAN
    /\ single_image_var = NoImage
    /\ multiple_images_var = <<>>
    /\ folder_var = ""
    /\ output_var \in {""} \cup OutputFolders
    /\ is_processing = FALSE
    /\ process_btn = "normal"
    /\ ocr_thread = NoOcrThread
    /\ output_files = <<>>

\* browse_single_image
BrowseSingleImage ==
    /\ tesseract_available
    /\ \E file_path \in Images \cup {NoImage} :
          IF file_path # NoImage
          THEN /\ single_image_var' = file_path
               /\ folder_var' = ""
               /\ multiple_images_var' = <<>>
          ELSE UNCHANGED <<single_image_var, folder_var, multiple_images_var>>
    /\ UNCHANGED <<tesseract_available, output_var, is_processing, process_btn,
                   ocr_thread, output_files, NonOcrVars>>

\* browse_multiple_images
BrowseMultipleImages ==
    /\ tesseract_available
    /\ \E file_paths \in ImageSelections :
          IF file_paths # <<>>
          THEN /\ multiple_images_var' = file_paths
               /\ single_image_var' = NoImage
               /\ folder_var' = ""
          ELSE UNCHANGED <<single_image_var, folder_var, multiple_images_var>>
    /\ UNCHANGED <<tesseract_available, output_var, is_processing, process_btn,
                   ocr_thread, output_files, NonOcrVars>>

\* browse_folder
BrowseFolder ==
    /\ tesseract_available
    /\ \E folder_path \in ImageFolders \cup {""} :
          IF folder_path # ""
          THEN /\ folder_var' = folder_path
               /\ single_image_var' = NoImage
               /\ multiple_images_var' = <<>>
          ELSE UNCHANGED <<single_image_var, folder_var, multiple_images_var>>
    /\ UNCHANGED <<tesseract_available, output_var, is_processing, process_btn,
                   ocr_thread, output_files, NonOcrVars>>

\* browse_output_folder
BrowseOutputFolder ==
    /\ tesseract_available
    /\ \E folder_path \in OutputFolders \cup {""} :
          IF folder_path # ""
          THEN output_var' = folder_path
          ELSE UNCHANGED output_var
    /\ UNCHANGED <<tesseract_available, single_image_var, multiple_images_var,
                   folder_var, is_processing, process_btn, ocr_thread,
                   output_files, NonOcrVars>>

\* clear_all
ClearAll ==
    /\ tesseract_available
    /\ single_image_var' = NoImage
    /\ multiple_images_var' = <<>>
    /\ folder_var' = ""
    /\ output_var' = ""
    /\ UNCHANGED <<tesseract_available, is_processing, process_btn, ocr_thread,
                   output_files, NonOcrVars>>

\* start_processing, a click on process_btn. output_at_start records the
\* folder the handler validated and created; the thread is given the list of
\* input files only
StartProcessing ==
    /\ tesseract_available
    /\ process_btn = "normal"
    /\ IF is_processing \/ ~tesseract_available
       THEN UNCHANGED <<is_processing, process_btn, ocr_thread, output_files>>
       ELSE \E input_files \in get_input_files :
               IF input_files = <<>> \/ output_var = ""
               THEN UNCHANGED <<is_processing, process_btn, ocr_thread,
                                output_files>>
               ELSE /\ is_processing' = TRUE
                    /\ process_btn' = "disabled"
                    /\ ocr_thread' = [state |-> "running",
                                      input_files |-> input_files, i |-> 0,
                                      success_count |-> 0,
                                      output_at_start |-> output_var]
                    /\ output_files' = <<>>
    /\ UNCHANGED <<tesseract_available, single_image_var, multiple_images_var,
                   folder_var, output_var, NonOcrVars>>

\* One turn of the loop of process_images: process_single_image on
\* input_files[i]. Image.open or image_to_string may raise, and then nothing
\* is written and the image does not count
ProcessSingleImage ==
    /\ ocr_thread.state = "running"
    /\ ocr_thread.i < Len(ocr_thread.input_files)
    /\ \E recognised \in BOOLEAN :
          IF recognised
          THEN /\ output_files' =
                    Append(output_files,
                           output_file(ocr_thread.input_files[ocr_thread.i + 1]))
               /\ ocr_thread' = [ocr_thread EXCEPT
                                    !.i = @ + 1, !.success_count = @ + 1]
          ELSE /\ ocr_thread' = [ocr_thread EXCEPT !.i = @ + 1]
               /\ UNCHANGED output_files
    /\ UNCHANGED <<tesseract_available, single_image_var, multiple_images_var,
                   folder_var, output_var, is_processing, process_btn,
                   NonOcrVars>>

\* The loop of process_images is over: root.after(0, processing_complete)
ProcessImagesReturn ==
    /\ ocr_thread.state = "running"
    /\ ocr_thread.i = Len(ocr_thread.input_files)
    /\ ocr_thread' = [ocr_thread EXCEPT !.state = "posted"]
    /\ UNCHANGED <<tesseract_available, single_image_var, multiple_images_var,
                   folder_var, output_var, is_processing, process_btn,
                   output_files, NonOcrVars>>

\* processing_complete, run by the main loop
ProcessingComplete ==
    /\ ocr_thread.state = "posted"
    /\ is_processing' = FALSE
    /\ process_btn' = "normal"
    /\ ocr_thread' = [ocr_thread EXCEPT !.state = "none"]
    /\ UNCHANGED <<tesseract_available, single_image_var, multiple_images_var,
                   folder_var, output_var, output_files, NonOcrVars>>

NextOcr ==
    \/ BrowseSingleImage
    \/ BrowseMultipleImages
    \/ BrowseFolder
    \/ BrowseOutputFolder
    \/ ClearAll
    \/ StartProcessing
    \/ ProcessSingleImage
    \/ ProcessImagesReturn
    \/ ProcessingComplete

SpecOcr == InitOcr /\ [][NextOcr]_vars

(***************************************************************************)
(* Properties of the pure functions (SpecPure).                            *)
(***************************************************************************)
Returned(fn) == pc = "returned" /\ ret.fn = fn

\* C1: for every input string, the chunks split_into_chunks returns,
\* concatenated in order, are exactly the input string.
C1_ChunksConcatToInput ==
    Returned("split_into_chunks") => Concat(ret.val) = text

\* The token's stripped form has at most 3 characters and the font name
\* holds the marker "sutonny", case-insensitively
ShortTokenInLegacyFont ==
    /\ Len(SelectSeq(text, IsWordChar)) <= ShortTokenLen
    /\ src_font_name # NoneStr
    /\ Contains(sutonny, LowerStr(src_font_name))

\* C5: for a token of stripped length at most 3 and a source font name that
\* holds the legacy-font marker (case-insensitively), should_use_tnr returns
\* false whatever the score of the oracle.
C5_ShortTokenGuard ==
    (Returned("should_use_tnr") /\ ShortTokenInLegacyFont /\ ~ret.raised)
        => ret.val = FALSE

\* C5 witness: a guarded token the oracle scores at or above the threshold
C5_Witness ==
    /\ Returned("should_use_tnr")
    /\ ShortTokenInLegacyFont
    /\ Len(SelectSeq(text, IsWordChar)) >= MinWordLen
    /\ zipf.installed
    /\ zipf.freq[OracleWord(text)] >= threshold
    /\ ret.val = FALSE

\* The oracle scores the token at or above some threshold1 >= threshold
ScoredAtOrAbove ==
    /\ zipf.installed
    /\ \E threshold1 \in Thresholds :
          /\ threshold <= threshold1
          /\ zipf.freq[OracleWord(text)] >= threshold1

\* C6 as stated: for any token, if the oracle's score is >= threshold1 and
\* threshold2 <= threshold1 then is_english_word(token, threshold2) is true.
C6_MonotoneAnyToken ==
    (Returned("is_english_word") /\ ScoredAtOrAbove) => ret.val = TRUE

\* C6 amended: the same, for tokens whose stripped form (letters, apostrophe,
\* hyphen) has at least 2 characters, the score being that of the
\* lower-cased stripped token.
C6_MonotoneLongToken ==
    (/\ Returned("is_english_word")
     /\ Len(SelectSeq(text, IsWordChar)) >= MinWordLen
     /\ ScoredAtOrAbove)
        => (ret.val = TRUE /\ ~ret.raised)

\* C6 witness: a token of stripped length >= 2 scored at a threshold1 above
\* the threshold it is asked with
C6_Witness ==
    /\ Returned("is_english_word")
    /\ Len(SelectSeq(text, IsWordChar)) >= MinWordLen
    /\ zipf.installed
    /\ \E threshold1 \in Thresholds :
          /\ threshold < threshold1
          /\ zipf.freq[OracleWord(text)] >= threshold1
    /\ ret.val = TRUE

(***************************************************************************)
(* Properties of the paragraph operations (SpecPara).                      *)
(***************************************************************************)
Protected(run) == run.kind \in {"hyperlink", "field"}

Texts(p) == Concat([k \in DOMAIN p |-> p[k].text])

\* process_run returns before emitting anything and leaves the run as it is
LeftUntouched(run) ==
    \/ sanitize_text(run.text) = <<>>
    \/ Protected(run)
    \/ split_into_chunks(sanitize_text(run.text)) = <<>>

\* What a run of the input is to contribute to the paragraph's text
ExpectedText(run) ==
    IF LeftUntouched(run) THEN run.text ELSE sanitize_text(run.text)

\* C2: after process_paragraph the texts of the paragraph's runs, read in
\* order, concatenate to the sanitized texts of the original runs (the
\* untouched text for a run that was skipped).
C2_ParagraphTextPreserved ==
    (mode = "frequency" /\ pc = "done")
        => Texts(paragraph) =
               Concat([k \in DOMAIN input_runs |-> ExpectedText(input_runs[k])])

\* C3: a run inside a hyperlink or a field-code run is never split and never
\* changes: in both modes its text and run properties stay as they were and
\* no run is cloned from it.
C3_ProtectedRunsUntouched ==
    \A k \in DOMAIN input_runs :
        Protected(input_runs[k]) =>
            /\ RunOf(paragraph, input_runs[k].id) = input_runs[k]
            /\ \A j \in DOMAIN paragraph : paragraph[j].src # input_runs[k].id

\* C3 witness: process_paragraph has passed a hyperlink run that has text
\* and has rewritten another run of the paragraph
C3_Witness ==
    /\ mode = "frequency"
    /\ pc = "done"
    /\ Len(paragraph) > Len(input_runs)
    /\ \E k \in DOMAIN input_runs :
          /\ input_runs[k].kind = "hyperlink"
          /\ sanitize_text(input_runs[k].text) # <<>>
          /\ split_into_chunks(sanitize_text(input_runs[k].text)) # <<>>

\* Everything of the run properties but the ascii and hAnsi slots of rFonts
\* and their theme references
OutsideAsciiSlots(rPr) ==
    [rPr EXCEPT !.rFonts = [present |-> TRUE, ascii |-> NoneFont,
                            hAnsi |-> NoneFont, eastAsia |-> @.eastAsia,
                            cs |-> @.cs, hint |-> @.hint,
                            asciiTheme |-> NoneFont, hAnsiTheme |-> NoneFont]]

AsciiSlots(rPr) ==
    <<rPr.rFonts.ascii, rPr.rFonts.hAnsi,
      rPr.rFonts.asciiTheme, rPr.rFonts.hAnsiTheme>>

C7_MissingInputExits2 ==
    (pc = "exit" /\ args.in_path.given /\ failure.at = "isfile")
        => exit_code = 2

\* C8: when opening the input document or saving the output document fails,
\* the process exits with code 1, in both modes and whatever the error.
C8_OpenSaveFailureExits1 ==
    (pc = "exit" /\ failure.at \in {"Document", "save"}) => exit_code = 1

\* C9: a run with --dry-run on a document that exists, opens and is
\* processed exits with code 0 and writes no file, whatever the other flags.
C9_DryRunWritesNothing ==
    (pc = "exit" /\ args.dry_run /\ processed)
        => (exit_code = 0 /\ written = {})

\* C10: a saved document never goes to the input file: in both modes, an
\* output path that is omitted or names the input file is replaced by
\* <input-stem>_fixed<ext> (.docx when the input has no extension).
C10_InputNeverOverwritten ==
    /\ Resolve(args.in_path) \notin written
    /\ (/\ written # {}
        /\ (~args.out_path.given
              \/ Resolve(args.out_path) = Resolve(args.in_path)))
           => written = {Resolve(FixedPath(args.in_path))}

\* C10 witness: a document was saved although --out named the input file
\* with another spelling of its path
C10_Witness ==
    /\ pc = "exit"
    /\ written # {}
    /\ args.out_path.given
    /\ args.out_path # args.in_path
    /\ Resolve(args.out_path) = Resolve(args.in_path)

(***************************************************************************)
(* Properties of main() and the document functions (SpecCliDoc, SpecDoc).  *)
(***************************************************************************)
\* main() took the frequency branch with an input path
FrequencyBranch == ~args.gui /\ ~SentenceMode /\ args.in_path.given

\* main() took the sentence branch with an input path and a sentence list
SentenceBranch ==
    ~args.gui /\ SentenceMode /\ args.in_path.given /\ ordered # <<>>

ParagraphAt(d, pid) ==
    LET all == AllParagraphs(d)
    IN all[CHOOSE k \in DOMAIN all : all[k].pid = pid].runs

\* For each character of the paragraph's text, the run it belongs to
CharRuns(p) ==
    Concat([k \in DOMAIN p |-> [i \in 1..Len(p[k].text) |-> p[k]]])

IsLatinFont(run) ==
    /\ run.rPr.rFonts.ascii = TimesNewRoman
    /\ run.rPr.rFonts.hAnsi = TimesNewRoman

\* The occurrences of the sentence in the paragraph whose every character
\* is in the Latin font, by their start offsets
RefontedSpans(p, sent) ==
    LET full_text == build_paragraph_text_map(p).full_text
        owner == CharRuns(p)
    IN {m \in 0..(Len(full_text) - Len(sent)) :
           /\ Slice(full_text, m, m + Len(sent)) = sent
           /\ \A i \in (m + 1)..(m + Len(sent)) : IsLatinFont(owner[i])}

\* C12: the total apply_sentences_docx returns is the sum of the counts of
\* the calls it made, and every span counted has had its text re-fonted:
\* a paragraph for which a call counted n spans of a sentence holds at least
\* n occurrences of that sentence entirely in Times New Roman.
C12_TotalCountsRefontedSpans ==
    (mode = "sentence" /\ pc \in {"doc_save", "doc_returned"})
        => /\ total_converted =
                  Len(Concat([k \in DOMAIN call_log |->
                                 [i \in 1..call_log[k].converted |-> k]]))
           /\ \A k \in DOMAIN call_log :
                  Cardinality(RefontedSpans(ParagraphAt(doc, call_log[k].pid),
                                            call_log[k].sentence))
                      >= call_log[k].converted

\* C13: apply_sentences_docx applies every sentence to every paragraph of
\* the document: body paragraphs, paragraphs of table cells at any depth of
\* nesting, header and footer paragraphs of every section and the
\* paragraphs of the tables in them, nested ones included.
C13_EverySentenceOnEveryParagraph ==
    (mode = "sentence" /\ pc \in {"doc_save", "doc_returned"})
        => \A k \in DOMAIN AllParagraphs(input_doc) :
               \A j \in DOMAIN doc_sentences :
                   \E i \in DOMAIN call_log :
                       /\ call_log[i].pid = AllParagraphs(input_doc)[k].pid
                       /\ call_log[i].sentence = doc_sentences[j]

RECURSIVE Sum(_)
Sum(numbers) ==
    IF numbers = <<>> THEN 0 ELSE Head(numbers) + Sum(Tail(numbers))

\* C14: convert_docx visits the body paragraphs, then the body tables with
\* the tables nested in their cells, then section by section the header
\* paragraphs and tables followed by the footer paragraphs and tables; each
\* paragraph reached is given to process_paragraph, and the totals reported
\* are the sums of what these calls returned.
C14_TraversalOrderAndTotals ==
    (mode = "frequency" /\ pc \in {"doc_save", "doc_returned"})
        => LET before == AllParagraphs(input_doc)
               after == AllParagraphs(doc)
               grand == GrandTotals(counts)
           IN /\ [k \in DOMAIN call_log |-> call_log[k].pid]
                     = [k \in DOMAIN before |-> before[k].pid]
              /\ \A k \in DOMAIN call_log :
                     LET r == process_paragraph(before[k].runs, threshold)
                     IN /\ call_log[k].scanned = r.scanned
                        /\ call_log[k].changed = r.changed
                        /\ after[k].runs = r.p
              /\ grand.paragraphs = Len(call_log)
              /\ grand.runs_scanned =
                     Sum([k \in DOMAIN call_log |-> call_log[k].scanned])
              /\ grand.english_changed =
                     Sum([k \in DOMAIN call_log |-> call_log[k].changed])

\* C14 witness: convert_docx has gone through a document with tables nested
\* three deep and with header and footer tables, and relabelled tokens
C14_Witness ==
    /\ mode = "frequency"
    /\ pc = "doc_returned"
    /\ \E f \in Fills : input_doc = NestedDocument(f)
    /\ GrandTotals(counts).english_changed > 0
    /\ GrandTotals(counts).paragraphs = Len(AllParagraphs(input_doc))

(***************************************************************************)
(* Further properties of the paragraph functions (SpecPara).               *)
(***************************************************************************)
\* C15: after process_paragraph every run the paragraph had before the call
\* is either cleared (its text is empty) or, being inside a hyperlink or a
\* field code, left exactly as it was.
C15_ClearedOrSkipped ==
    (mode = "frequency" /\ pc = "done")
        => \A k \in DOMAIN input_runs :
               LET run == RunOf(paragraph, input_runs[k].id)
               IN \/ run.text = <<>>
                  \/ Protected(input_runs[k]) /\ run = input_runs[k]

\* The chunks process_run emits for a run of the paragraph
ChunksOf(run) ==
    IF Protected(run) THEN <<>>
    ELSE split_into_chunks(sanitize_text(run.text))

\* The runs that stand behind the k-th original run and before the next one
RunsBehind(k) ==
    SubSeq(paragraph, IndexOf(paragraph, input_runs[k].id) + 1,
           IF k = Len(input_runs) THEN Len(paragraph)
           ELSE IndexOf(paragraph, input_runs[k + 1].id) - 1)

\* C19: after process_paragraph the original runs stand in their order, the
\* first of them first, and behind each of them, before the next one, stand
\* the runs emitted for it, one per chunk and in the order of the chunks.
C19_EmittedRunsInPlace ==
    (mode = "frequency" /\ pc = "done")
        => /\ input_runs # <<>> => paragraph[1].id = input_runs[1].id
           /\ \A k \in DOMAIN input_runs :
                  /\ k < Len(input_runs)
                        => IndexOf(paragraph, input_runs[k].id)
                               < IndexOf(paragraph, input_runs[k + 1].id)
                  /\ [j \in DOMAIN RunsBehind(k) |-> RunsBehind(k)[j].text]
                         = ChunksOf(input_runs[k])
                  /\ \A j \in DOMAIN RunsBehind(k) :
                         RunsBehind(k)[j].src = input_runs[k].id

\* C19 witness: a run that gave several chunks is followed by another run
\* that gave chunks too
C19_Witness ==
    /\ mode = "frequency"
    /\ pc = "done"
    /\ \E k \in 1..(Len(input_runs) - 1) :
          /\ Len(ChunksOf(input_runs[k])) >= 2
          /\ ChunksOf(input_runs[k + 1]) # <<>>

RECURSIVE MatchStarts(_, _, _)
\* Where the occurrences of the sentence start that a scan from pos finds,
\* each one sought behind the end of the one before
MatchStarts(full_text, sent, pos) ==
    IF sent = <<>> \/ pos >= Len(full_text) THEN {}
    ELSE IF Search(full_text, sent, pos) < 0 THEN {}
    ELSE {Search(full_text, sent, pos)}
             \cup MatchStarts(full_text, sent,
                              Search(full_text, sent, pos) + Len(sent))

\* The i-th character of the text lies inside a matched span
InMatchedSpan(full_text, sent, i) ==
    \E m \in MatchStarts(full_text, sent, 0) : m < i /\ i <= m + Len(sent)

\* The positions in the paragraph of the runs split off the run
SplitOff(id) == {j \in DOMAIN paragraph : paragraph[j].src = id}

\* C20: after apply_sentence_to_paragraph every character of a matched span
\* that was in a run outside hyperlinks and field codes is in a run whose
\* ascii and hAnsi fonts are Times New Roman; every character outside the
\* matched spans is in a run with the properties its run had before; a run
\* that was split is empty and has given one run for the overlap, at most
\* one run before it and at most one behind it, all of them behind the run.
C20_SpansRefontedRestKept ==
    (mode = "sentence" /\ pc = "done")
        => /\ Texts(paragraph) = Texts(input_runs)
           /\ \A i \in 1..Len(Texts(input_runs)) :
                  IF InMatchedSpan(Texts(input_runs), sentence, i)
                  THEN ~Protected(CharRuns(input_runs)[i])
                           => IsLatinFont(CharRuns(paragraph)[i])
                  ELSE CharRuns(paragraph)[i].rPr
                           = CharRuns(input_runs)[i].rPr
           /\ \A k \in DOMAIN paragraph :
                  SplitOff(paragraph[k].id) # {} =>
                      /\ paragraph[k].text = <<>>
                      /\ Cardinality(SplitOff(paragraph[k].id)) <= 3
                      /\ \A j \in SplitOff(paragraph[k].id) : k < j
                      /\ \E t \in SplitOff(paragraph[k].id) :
                            /\ paragraph[t].relabelled
                            /\ \A i, j \in SplitOff(paragraph[k].id) \ {t} :
                                  /\ ~paragraph[i].relabelled
                                  /\ (i < t /\ j < t) => i = j
                                  /\ (i > t /\ j > t) => i = j

\* C20 witness: a run in the legacy font was split in three around a match
\* in its middle
C20_Witness ==
    /\ mode = "sentence"
    /\ pc = "done"
    /\ \E k \in DOMAIN input_runs :
          /\ input_runs[k].rPr = SutonnyRPr
          /\ Cardinality(SplitOff(input_runs[k].id)) = 3

(***************************************************************************)
(* Further properties of the document functions (SpecDoc).                 *)
(***************************************************************************)
\* The paragraphs of the document that were given to process_paragraph or
\* to apply_sentence_to_paragraph so far
ProcessedParagraphs == {call_log[i].pid : i \in DOMAIN call_log}

\* C16: in both modes the save of the output document is attempted only
\* after every paragraph of the document in memory has been processed, and
\* a traversal that raises leaves the function without a save.
C16_SaveOnlyAfterEveryParagraph ==
    /\ (pc = "doc_save" \/ saved # "no")
          => \A k \in DOMAIN AllParagraphs(input_doc) :
                 AllParagraphs(input_doc)[k].pid \in ProcessedParagraphs
    /\ (pc = "doc_raised" /\ saved # "failed") => saved = "no"

(***************************************************************************)
(* Further properties of the command line (SpecCli).                       *)
(***************************************************************************)
\* --sentences or --sentences-file is on the command line
SentencesSupplied == args.sentences # NoneStr \/ args.sentences_file

\* C17: when --sentences and/or --sentences-file is supplied and no
\* sentence comes out of them, the process exits with code 2 and no
\* document is opened, processed or written.
C17_EmptySentenceListExits2 ==
    (pc = "exit" /\ ~args.gui /\ SentencesSupplied /\ ordered = <<>>)
        => (exit_code = 2 /\ ~opened /\ ~processed /\ written = {})

(***************************************************************************)
(* Properties of the text combiner (SpecApp).                              *)
(***************************************************************************)
\* The keys of the entries of the file list
ListKeys == {index_key(self_files[k]) : k \in DOMAIN self_files}

\* The positions of the batch whose path resolves to a file that is neither
\* in the list nor earlier in the batch
FreshPositions(paths) ==
    LET keys == [k \in DOMAIN paths |-> index_key(paths[k])]
        there == ListKeys
    IN {k \in DOMAIN paths :
           /\ ~path_resolve(paths[k]).raised
           /\ keys[k] \notin there
           /\ \A j \in 1..(k - 1) :
                  path_resolve(paths[j]).raised \/ keys[j] # keys[k]}

\* The resolved paths at these positions, in the order of the batch
InBatchOrder(paths, positions) ==
    LET order == Ascending(positions)
    IN [i \in DOMAIN order |-> path_resolve(paths[order[i]]).path]

\* A step of on_add_files or on_add_folder that reached _add_files
AddStep ==
    /\ event'.handler \in {"on_add_files", "on_add_folder"}
    /\ <<self_files, event>> # <<self_files', event'>>

\* C18: whatever the handlers that ran, no two entries of the file list
\* have the same key, files_index is the set of the keys of the entries,
\* and an add operation puts the files it adds behind the entries that were
\* there, in the order of the batch.
C18_FileListInvariants ==
    /\ [](/\ \A i, j \in DOMAIN self_files :
                 index_key(self_files[i]) = index_key(self_files[j]) => i = j
          /\ files_index = ListKeys)
    /\ [][AddStep => self_files' =
              self_files \o InBatchOrder(event'.paths,
                                         FreshPositions(event'.paths))]_vars

\* C18 witness: on Windows a batch with two spellings of one file name was
\* added behind an entry that an earlier handler had left in the list
C18_Witness ==
    /\ platform.os_name = "nt"
    /\ event = [handler |-> "on_add_files", paths |-> <<PathUpperA, PathA>>]
    /\ Len(self_files) = 2
    /\ self_files[1] = path_resolve(PathInD).path
    /\ self_files[2] = path_resolve(PathA).path

(***************************************************************************)
(* Properties of the sentence matcher (SpecPara).                          *)
(***************************************************************************)
\* C21: apply_sentence_to_paragraph never changes the flattened text of the
\* paragraph: before the first iteration, after every iteration of the
\* while loop and at the return the texts of the runs, read in paragraph
\* order, concatenate to the flattened text before the call, so that the
\* projection build_paragraph_text_map rebuilds has the characters where
\* the previous one had them.
C21_FlattenedTextUnchanged ==
    mode = "sentence"
        => /\ Texts(paragraph) = Texts(input_runs)
           /\ build_paragraph_text_map(paragraph).full_text
                  = build_paragraph_text_map(input_runs).full_text

\* C21 witness: an iteration has split a run in the middle of the loop,
\* and the rebuilt projection holds a further match
C21_Witness ==
    /\ mode = "sentence"
    /\ pc = "apply_sentence"
    /\ converted >= 1
    /\ Len(paragraph) > Len(input_runs)
    /\ NextMatch >= 0

\* Where the text holds the sentence, character for character
Occurrences(full_text, sent) ==
    {m \in 0..(Len(full_text) - Len(sent)) :
         \A i \in 1..Len(sent) : full_text[m + i] = sent[i]}

RECURSIVE ScanCount(_, _, _)
\* How many occurrences a scan from left to right counts that takes the
\* leftmost occurrence at or behind pos and resumes at its end
ScanCount(full_text, sent, pos) ==
    IF {m \in Occurrences(full_text, sent) : m >= pos} = {} THEN 0
    ELSE 1 + ScanCount(full_text, sent,
                 Len(sent) + CHOOSE m \in Occurrences(full_text, sent) :
                     /\ m >= pos
                     /\ \A n \in Occurrences(full_text, sent) :
                            n >= pos => m <= n)

InitParaDoc == InitPara \/ InitDoc

NextParaDoc == NextPara \/ NextDoc

SpecParaDoc == InitParaDoc /\ [][NextParaDoc]_vars

(***************************************************************************)
(* Properties of runs and structure (SpecParaDoc).                         *)
(***************************************************************************)
\* The ids of the runs of a paragraph, in paragraph order
RunIds(p) == [k \in DOMAIN p |-> p[k].id]

\* Every run of before is in after, and these runs are in after in the
\* order they had; after has no fewer runs
RunsKept(before, after) ==
    /\ SelectSeq(RunIds(after), LAMBDA id : id \in Range(RunIds(before)))
           = RunIds(before)
    /\ Len(after) >= Len(before)

ParaIds(paras) == [k \in DOMAIN paras |-> paras[k].pid]

RECURSIVE TablesShape(_)
RECURSIVE CellsShape(_)
\* The cells of a table with their paragraphs and nested tables, without
\* the runs
CellsShape(cells) ==
    [k \in DOMAIN cells |->
        [paragraphs |-> ParaIds(cells[k].paragraphs),
         tables |-> TablesShape(cells[k].tables)]]

TablesShape(tables) == [k \in DOMAIN tables |-> CellsShape(tables[k])]

PartShape(part) ==
    [paragraphs |-> ParaIds(part.paragraphs),
     tables |-> TablesShape(part.tables)]

\* The paragraphs, tables and sections of a document, their number and
\* order, without the runs
DocShape(d) ==
    [paragraphs |-> ParaIds(d.paragraphs),
     tables |-> TablesShape(d.tables),
     sections |-> [k \in DOMAIN d.sections |->
                      [header |-> PartShape(d.sections[k].header),
                       footer |-> PartShape(d.sections[k].footer)]]]

\* A document is being traversed
InDocument == pc \in {"doc_body", "doc_tables", "doc_sections", "doc_save",
                      "doc_returned", "doc_raised"}

\* C23: whatever process_run and split_run_apply_tnr have done so far,
\* every run that was there before is still in its paragraph, in the same
\* order relative to the others, the number of runs of a paragraph never
\* goes down, and the paragraphs, tables and sections of the document are
\* the same in number and order.
C23_RunsAndStructureKept ==
    /\ [](/\ mode \in {"frequency", "sentence"} /\ ~InDocument
              => RunsKept(input_runs, paragraph)
          /\ InDocument
              => /\ DocShape(doc) = DocShape(input_doc)
                 /\ \A k \in DOMAIN AllParagraphs(input_doc) :
                        RunsKept(AllParagraphs(input_doc)[k].runs,
                                 AllParagraphs(doc)[k].runs))
    /\ [][/\ Len(paragraph') >= Len(paragraph)
          /\ InDocument
              => \A k \in DOMAIN AllParagraphs(doc) :
                     Len(AllParagraphs(doc')[k].runs)
                         >= Len(AllParagraphs(doc)[k].runs)]_vars

\* C23 witness: sentence mode has gone through a document with nested
\* tables and has split the run of a paragraph of a nested table, which is
\* still the first run of its paragraph and is empty
C23_Witness ==
    /\ pc = "doc_returned"
    /\ mode = "sentence"
    /\ \E k \in DOMAIN AllParagraphs(doc) :
          /\ AllParagraphs(doc)[k].pid = "t2"
          /\ Len(AllParagraphs(doc)[k].runs)
                 > Len(AllParagraphs(input_doc)[k].runs)
          /\ AllParagraphs(doc)[k].runs[1].id = 1
          /\ AllParagraphs(doc)[k].runs[1].text = <<>>
          /\ AllParagraphs(input_doc)[k].runs[1].text # <<>>

(***************************************************************************)
(* Properties of a repeated frequency pass (SpecTwice).                    *)
(***************************************************************************)
\* The ascii and hAnsi fonts of the run of each character of the text
CharFonts(p) ==
    [i \in DOMAIN CharRuns(p) |->
        <<CharRuns(p)[i].rPr.rFonts.ascii, CharRuns(p)[i].rPr.rFonts.hAnsi>>]

\* process_paragraph has returned from its second call on the paragraph
SecondPassDone == mode = "frequency" /\ pc = "done" /\ first_pass # <<>>

\* C24: process_paragraph applied a second time, with the same threshold
\* and oracle, to a paragraph it has processed leaves the flattened text
\* and the ascii and hAnsi font of every character as the first call left
\* them; the paragraph only has more runs.
C24_SecondPassKeepsContent ==
    SecondPassDone
        => /\ Texts(paragraph) = Texts(first_pass)
           /\ CharFonts(paragraph) = CharFonts(first_pass)
           /\ Len(paragraph) >= Len(first_pass)

\* C24 witness: the first call gave a word Times New Roman and left a
\* short word of a SutonnyMJ run in its font although the oracle rates
\* it English, and the second call has split both runs again
C24_Witness ==
    /\ SecondPassDone
    /\ Len(paragraph) > Len(first_pass)
    /\ \E k \in DOMAIN first_pass :
          /\ first_pass[k].relabelled
          /\ first_pass[k].text # <<>>
    /\ \E k \in DOMAIN first_pass :
          /\ FontName(first_pass[k]) = SutonnyMJ
          /\ EN_LIKE_WORD_RE(first_pass[k].text)
          /\ is_english_word(first_pass[k].text, threshold)

(***************************************************************************)
(* Properties of the order of the loops of sentence mode (SpecOrder).      *)
(***************************************************************************)
\* The run properties of the run of each character of the text
CharProperties(p) == [i \in DOMAIN CharRuns(p) |-> CharRuns(p)[i].rPr]

\* What process_paragraphs leaves for the list of sentences as it was given
InGivenOrder ==
    process_paragraphs(input_doc.paragraphs, doc_sentences,
                       [log |-> <<>>, total_converted |-> 0])

\* C25: the total of the matches and the final font of every character do
\* not depend on the order of the loops of sentence mode: they are the same
\* for every arrangement of the list of sentences, with the loop over the
\* sentences inside the loop over the paragraphs or outside it.
C25_OrderOfLoopsIrrelevant ==
    pc = "order_done"
        => /\ total_converted = InGivenOrder.t.total_converted
           /\ \A k \in DOMAIN doc.paragraphs :
                  /\ Texts(doc.paragraphs[k].runs)
                         = Texts(InGivenOrder.paragraphs[k].runs)
                  /\ CharProperties(doc.paragraphs[k].runs)
                         = CharProperties(InGivenOrder.paragraphs[k].runs)

\* C25 witness: three sentences whose matches overlap were applied with the
\* loop over the sentences outside, beginning with another sentence than
\* the first of the list, and a paragraph of two runs was split
C25_Witness ==
    /\ pc = "order_done"
    /\ Len(doc_sentences) = 3
    /\ call_log[1].sentence # doc_sentences[1]
    /\ call_log[2].pid # call_log[1].pid
    /\ call_log[2].sentence = call_log[1].sentence
    /\ total_converted >= 6
    /\ Len(input_doc.paragraphs[1].runs) = 2
    /\ Len(doc.paragraphs[1].runs) > Len(input_doc.paragraphs[1].runs) + 2

(***************************************************************************)
(* Termination of the sentence matcher (SpecSentenceLive).                 *)
(***************************************************************************)
\* C26: apply_sentence_to_paragraph terminates for every paragraph and
\* every sentence, also when the runs of a match are protected and nothing
\* is changed: every iteration of the loop that finds a match moves
\* search_from forward, never beyond the end of the flattened text, and the
\* call returns.
C26_SentenceMatcherTerminates ==
    /\ [][ApplySentenceMatch
              => /\ search_from' > search_from
                 /\ search_from' <= Len(Texts(paragraph))
                 /\ Len(Texts(paragraph')) = Len(Texts(paragraph))]_vars
    /\ <>(pc = "done" /\ ret.fn = "apply_sentence_to_paragraph")

\* C26 witness: the call has returned after three matches in hyperlink and
\* field-code runs, which it left as they were
C26_Witness ==
    /\ pc = "done"
    /\ mode = "sentence"
    /\ converted = 3
    /\ search_from = 3
    /\ paragraph = input_runs
    /\ \A k \in DOMAIN input_runs : Protected(input_runs[k])

\* Every selected line can go one place in the direction of delta
CanMove(delta) ==
    \A i \in lst_files.selection : 0 <= i + delta /\ i + delta < Len(self_files)

\* The entries of the list at the positions that are not selected, in order
Unselected(list, selection) ==
    [k \in 1..Cardinality(DOMAIN list \ {i + 1 : i \in selection}) |->
        list[Ascending({i - 1 : i \in DOMAIN list \ {j + 1 : j \in selection}})[k] + 1]]

\* C30: on_move(delta), delta -1 or 1, moves every selected item one place
\* in the direction of delta when every selected item has a place to go to,
\* the selected items keeping their order and the others theirs; and the
\* list always holds the entries it held, each once.
C30_MoveShiftsSelectionByOne ==
    [][\A delta \in {-1, 1} :
          (Move(delta) /\ self_files # <<>> /\ lst_files.selection # {})
              => /\ Len(self_files') = Len(self_files)
                 /\ \A p \in Range(self_files) :
                        Cardinality({k \in DOMAIN self_files' :
                                         self_files'[k] = p})
                            = Cardinality({k \in DOMAIN self_files :
                                               self_files[k] = p})
                 /\ CanMove(delta)
                        => /\ \A i \in lst_files.selection :
                                  self_files'[i + delta + 1] = self_files[i + 1]
                           /\ Unselected(self_files',
                                         {i + delta : i \in lst_files.selection})
                                  = Unselected(self_files,
                                               lst_files.selection)]_vars

(***************************************************************************)
(* Properties of the Combine thread (SpecCombine).                         *)
(***************************************************************************)
\* The thread of on_combine has been started and neither _combine_complete
\* nor _combine_failed has run
WorkerActive == worker.state # "none"

\* C27: while the thread started by on_combine is running, until
\* _combine_complete or _combine_failed has run, no handler changes the
\* list self.files the thread is going through: nothing is removed,
\* cleared, moved or added.
C27_FileListFrozenWhileCombining ==
    [][WorkerActive => self_files' = self_files]_vars

(***************************************************************************)
(* Properties of combine_files (SpecCombineFiles).                         *)
(***************************************************************************)
RECURSIVE Joined(_, _)
\* separator.join(parts)
Joined(parts, separator) ==
    IF parts = <<>> THEN <<>>
    ELSE IF Len(parts) = 1 THEN parts[1]
    ELSE parts[1] \o separator \o Joined(Tail(parts), separator)

\* What a written file contributes: its header, if asked for, and its text
Contribution(p, add_headers) ==
    (IF add_headers THEN Header(p) ELSE <<>>) \o read_file_text(p)

\* C29: combine_files writes the separator between consecutive written
\* files and neither before the first nor after the last of them: whatever
\* files of the list are missing or unreadable, the output is the contents
\* of the files written, each behind its header if headers are asked for,
\* joined by the separator.
C29_SeparatorOnlyBetweenWrittenFiles ==
    worker.state = "returned"
        => out_f = Joined([k \in DOMAIN worker.sources |->
                              Contribution(worker.sources[k],
                                           worker.add_headers)],
                          worker.separator)

(***************************************************************************)
(* Properties of the OCR window (SpecOcr).                                  *)
(***************************************************************************)

\* C28: every text file a batch has produced lies in the output folder that
\* was selected when "Start OCR Processing" was pressed, whatever Clear All
\* or Browse did while the thread of the batch was running.
C28_BatchWritesToFolderOfStart ==
    \A k \in DOMAIN output_files :
        output_files[k].dir = ocr_thread.output_at_start

====
